---- MODULE Spec2Model ----
(***************************************************************************)
(* Denix-AI chat panel: the context-attachment reconciler, the send path   *)
(* of ChatPanelProvider and the request builder, with the stores and the   *)
(* editor selection they read.  Text is kept as strings and the text       *)
(* functions (trim, split, lower-casing, substring search) are computed    *)
(* character by character.                                                 *)
(***************************************************************************)
EXTENDS Naturals, Sequences, FiniteSets, Bags

(***************************************************************************)
(* Text helpers: JavaScript string operations used by the source.          *)
(***************************************************************************)

\* One character of s, as a string of length 1.
CharAt(s, i) == SubSeq(s, i, i)

\* \s of a JavaScript regular expression, over the characters used here.
IsSpace(c) == c \in {" ", "\n", "\t", "\r"}

RECURSIVE TrimStart(_)
TrimStart(s) ==
  IF s = "" THEN ""
  ELSE IF IsSpace(Head(s)) THEN TrimStart(Tail(s)) ELSE s

RECURSIVE TrimEnd(_)
TrimEnd(s) ==
  IF s = "" THEN ""
  ELSE IF IsSpace(CharAt(s, Len(s))) THEN TrimEnd(SubSeq(s, 1, Len(s) - 1)) ELSE s

\* String.prototype.trim
Trim(s) == TrimEnd(TrimStart(s))

\* String.prototype.startsWith
StartsWith(s, p) == Len(s) >= Len(p) /\ SubSeq(s, 1, Len(p)) = p

\* String.prototype.includes
Includes(s, p) ==
  \E i \in 1..(Len(s) + 1) : i + Len(p) - 1 <= Len(s) /\ SubSeq(s, i, i + Len(p) - 1) = p

UpperLetters == "ABCDEFGHIJKLMNOPQRSTUVWXYZ"
LowerLetters == "abcdefghijklmnopqrstuvwxyz"

\* Each upper-case letter with its lower-case letter.
LowerMap ==
  [c \in {CharAt(UpperLetters, i) : i \in 1..Len(UpperLetters)} |->
     CharAt(LowerLetters, CHOOSE i \in 1..Len(UpperLetters) : CharAt(UpperLetters, i) = c)]

LowerChar(c) == IF c \in DOMAIN LowerMap THEN LowerMap[c] ELSE c

\* String.prototype.toLowerCase
RECURSIVE ToLowerCase(_)
ToLowerCase(s) ==
  IF Len(s) = 0 THEN ""
  ELSE IF Len(s) = 1 THEN LowerChar(s)
  ELSE LET half == Len(s) \div 2
       IN ToLowerCase(SubSeq(s, 1, half)) \o ToLowerCase(SubSeq(s, half + 1, Len(s)))

\* Array.prototype.join
RECURSIVE Join(_, _)
Join(parts, sep) ==
  IF parts = <<>> THEN ""
  ELSE IF Len(parts) = 1 THEN parts[1]
  ELSE parts[1] \o sep \o Join(Tail(parts), sep)

\* The last index of the maximal run of white space (space = TRUE) or of other
\* characters (space = FALSE) that starts at index i of s.
RunEnd(s, i, space) ==
  CHOOSE j \in i..Len(s) :
    /\ \A k \in i..j : IsSpace(CharAt(s, k)) = space
    /\ j = Len(s) \/ IsSpace(CharAt(s, j + 1)) # space

\* s.split(/\s+/): the pieces between maximal runs of white space; a leading or
\* trailing run leaves an empty first or last piece.  SplitWsFrom gives the pieces
\* from index i on, where a piece starts.
RECURSIVE SplitWsFrom(_, _)
SplitWsFrom(s, i) ==
  LET e == RunEnd(s, i, FALSE)
  IN IF e = Len(s) THEN <<SubSeq(s, i, e)>>
     ELSE LET f == RunEnd(s, e + 1, TRUE)
          IN <<SubSeq(s, i, e)>> \o (IF f = Len(s) THEN <<"">> ELSE SplitWsFrom(s, f + 1))

SplitWs(s) ==
  IF s = "" THEN <<"">>
  ELSE IF IsSpace(CharAt(s, 1))
       THEN LET f == RunEnd(s, 1, TRUE)
            IN <<"">> \o (IF f = Len(s) THEN <<"">> ELSE SplitWsFrom(s, f + 1))
       ELSE SplitWsFrom(s, 1)

\* s.split(/\r?\n/)
RECURSIVE SplitLinesFrom(_, _)
SplitLinesFrom(s, cur) ==
  IF s = "" THEN <<cur>>
  ELSE IF Head(s) = "\n" THEN <<cur>> \o SplitLinesFrom(Tail(s), "")
  ELSE IF Head(s) = "\r" /\ Len(s) >= 2 /\ CharAt(s, 2) = "\n"
       THEN <<cur>> \o SplitLinesFrom(SubSeq(s, 3, Len(s)), "")
  ELSE SplitLinesFrom(Tail(s), cur \o Head(s))

SplitLines(s) == SplitLinesFrom(s, "")

\* [...new Set(xs)]: the elements of xs, each once, in first-occurrence order.
RECURSIVE Dedupe(_, _)
Dedupe(xs, seen) ==
  IF xs = <<>> THEN <<>>
  ELSE IF Head(xs) \in seen THEN Dedupe(Tail(xs), seen)
  ELSE <<Head(xs)>> \o Dedupe(Tail(xs), seen \cup {Head(xs)})

RECURSIVE FlattenSeq(_)
FlattenSeq(xss) == IF xss = <<>> THEN <<>> ELSE Head(xss) \o FlattenSeq(Tail(xss))

SeqRange(xs) == {xs[i] : i \in 1..Len(xs)}

DecimalDigits == "0123456789"

\* Number to decimal text, as a template literal prints it.
RECURSIVE NumberToString(_)
NumberToString(n) ==
  IF n < Len(DecimalDigits) THEN CharAt(DecimalDigits, n + 1)
  ELSE NumberToString(n \div Len(DecimalDigits)) \o CharAt(DecimalDigits, (n % Len(DecimalDigits)) + 1)

\* `msg-${Date.now()}`
MessageId(now) == "msg-" \o NumberToString(now)

\* The ids of the messages of a history of an earlier session, stamped in the
\* milliseconds before the construction.
RestoredIds(msgs) == [i \in 1..Len(msgs) |-> "msg--" \o NumberToString(Len(msgs) - i + 1)]

(***************************************************************************)
(* MemoriesManager                                                         *)
(***************************************************************************)

DEFAULT_MEMORIES == "# Denix AI Memories\n\n"

\* /^##\s+(.*)/ applied to the trimmed line.
IsHeading(line) ==
  LET t == Trim(line) IN StartsWith(t, "##") /\ Len(t) >= 3 /\ IsSpace(CharAt(t, 3))

HeadingTitle(line) == LET t == Trim(line) IN TrimStart(SubSeq(t, 3, Len(t)))

\* pushCurrent: nothing for an empty buffer, else one entry.
PushCurrent(entries, title, buffer) ==
  IF buffer = <<>> THEN entries
  ELSE Append(entries, [section |-> Trim(title), content |-> Trim(Join(buffer, "\n"))])

RECURSIVE SplitSectionsFrom(_, _, _, _)
SplitSectionsFrom(lines, title, buffer, entries) ==
  IF lines = <<>> THEN PushCurrent(entries, title, buffer)
  ELSE IF IsHeading(Head(lines))
       THEN SplitSectionsFrom(Tail(lines), HeadingTitle(Head(lines)), <<>>,
                              PushCurrent(entries, title, buffer))
       ELSE IF ~StartsWith(Head(lines), "#")
            THEN SplitSectionsFrom(Tail(lines), title, Append(buffer, Head(lines)), entries)
            ELSE SplitSectionsFrom(Tail(lines), title, buffer, entries)

\* MemoriesManager.splitSections
splitSections(markdown) ==
  SelectSeq(SplitSectionsFrom(SplitLines(markdown), "General", <<>>, <<>>),
            LAMBDA e : Len(e.content) > 0)

\* The filter on the haystack as written, not lower-cased.
getRelevantMemoriesAsWritten(markdown, keywords) ==
  IF Len(keywords) = 0 THEN splitSections(markdown)
  ELSE SelectSeq(splitSections(markdown),
         LAMBDA e : \E i \in 1..Len(keywords) :
            Includes(e.section \o "\n" \o e.content, ToLowerCase(keywords[i])))

\* MemoriesManager.getRelevantMemories, on the document it loads.
getRelevantMemories(markdown, keywords) ==
  IF Len(keywords) = 0 THEN splitSections(markdown)
  ELSE SelectSeq(splitSections(markdown),
         LAMBDA e : \E i \in 1..Len(keywords) :
            Includes(ToLowerCase(e.section \o "\n" \o e.content), ToLowerCase(keywords[i])))

(***************************************************************************)
(* RulesManager.  The rules directory is a function from the names of the  *)
(* rule files that exist (extension stripped) to their contents.           *)
(***************************************************************************)

\* The order in which readDirectory lists the rule files.
RuleListing == <<"lint", "my-rule", "style">>

\* What the user has written into each rule file.
RuleText(name) == IF name = "style" THEN "Use 2-space indent." ELSE "No unused vars."

RulePath(name) == "/w/.denix/rules/" \o name \o ".md"

\* RulesManager.listRuleFiles
listRuleFiles(dir) ==
  LET present == SelectSeq(RuleListing, LAMBDA n : n \in DOMAIN dir)
  IN [i \in 1..Len(present) |->
        [name |-> present[i], path |-> RulePath(present[i]), content |-> dir[present[i]]]]

\* String.prototype.endsWith
EndsWith(s, p) == Len(s) >= Len(p) /\ SubSeq(s, Len(s) - Len(p) + 1, Len(s)) = p

\* name.replace(/\.md$/i, '')
WithoutMd(name) ==
  IF Len(name) >= 3 /\ ToLowerCase(SubSeq(name, Len(name) - 2, Len(name))) = ".md"
  THEN SubSeq(name, 1, Len(name) - 3) ELSE name

\* name.replace(/\s+/g, '-').toLowerCase()
SafeName(name) == ToLowerCase(Join(SplitWs(name), "-"))

\* The file createRuleFile writes for a rule name.
RuleFilename(name) == IF EndsWith(SafeName(name), ".md") THEN SafeName(name) ELSE SafeName(name) \o ".md"

\* RulesManager.getRuleContent
getRuleContent(dir, name) == IF name \in DOMAIN dir THEN dir[name] ELSE ""

(***************************************************************************)
(* ContextManager.buildContext and ChatPanelProvider._extractKeywords      *)
(***************************************************************************)

\* The last n elements of xs: Array.prototype.slice(-n).
LastN(xs, n) == IF Len(xs) <= n THEN xs ELSE SubSeq(xs, Len(xs) - n + 1, Len(xs))

KeywordsOf(content) == SelectSeq(SplitWs(ToLowerCase(content)), LAMBDA w : Len(w) > 4)

\* Keywords of four characters and more.
extractKeywordsFromFour(msgs) ==
  LET lastMessages == LastN(msgs, 3)
  IN Dedupe(FlattenSeq([i \in 1..Len(lastMessages) |->
                          SelectSeq(SplitWs(ToLowerCase(lastMessages[i].content)),
                                    LAMBDA w : Len(w) >= 4)]), {})

\* ChatPanelProvider._extractKeywords
extractKeywords(msgs) ==
  LET lastMessages == LastN(msgs, 3)
  IN Dedupe(FlattenSeq([i \in 1..Len(lastMessages) |-> KeywordsOf(lastMessages[i].content)]), {})

MemoryString(m) == "## " \o m.section \o "\n" \o m.content

\* ContextManager.buildContext: the bundle built from what the stores hold.
buildContext(keywords, memDoc, guideDoc, dir, sel) ==
  LET rulesList == listRuleFiles(dir)
      relevant == getRelevantMemories(memDoc, keywords)
  IN [ memories         |-> memDoc,
       relevantMemories |-> [i \in 1..Len(relevant) |-> MemoryString(relevant[i])],
       guidelines       |-> guideDoc,
       rules            |-> [i \in 1..Len(rulesList) |->
                               [name |-> rulesList[i].name, path |-> rulesList[i].path,
                                content |-> getRuleContent(dir, rulesList[i].name)]],
       selection        |-> sel ]

(***************************************************************************)
(* ChatPanelProvider._updateContextAttachments: the list built from a      *)
(* bundle and the dismissed ids.  No selection is the empty sequence, a    *)
(* selection a sequence of one SelectionContext.                           *)
(***************************************************************************)

MemoriesAttachment(context) ==
  IF Len(context.relevantMemories) > 0
  THEN << [id |-> "memories", type |-> "file", path |-> ".denix/memories.md",
           name |-> "Memories", content |-> Join(context.relevantMemories, "\n\n")] >>
  ELSE <<>>

RuleAttachment(rule) ==
  [id |-> "rule-" \o rule.name, type |-> "file", path |-> rule.path,
   name |-> "@" \o rule.name, content |-> rule.content]

RuleAttachments(context, dismissedIds) ==
  LET active == SelectSeq(context.rules, LAMBDA r : ("rule-" \o r.name) \notin dismissedIds)
  IN [i \in 1..Len(active) |-> RuleAttachment(active[i])]

\* The selection shown only while nothing at all is dismissed.
SelectionAttachmentUnlessDismissals(context, dismissedIds) ==
  IF context.selection # <<>> /\ dismissedIds = {}
  THEN LET sel == context.selection[1]
       IN << [id |-> "selection", type |-> "file", path |-> sel.uri,
              name |-> sel.fileName \o ":" \o NumberToString(sel.startLine) \o "-"
                         \o NumberToString(sel.endLine),
              content |-> sel.text] >>
  ELSE <<>>

SelectionAttachment(context, dismissedIds) ==
  IF context.selection # <<>> /\ "selection" \notin dismissedIds
  THEN LET sel == context.selection[1]
       IN << [id |-> "selection", type |-> "file", path |-> sel.uri,
              name |-> sel.fileName \o ":" \o NumberToString(sel.startLine) \o "-"
                         \o NumberToString(sel.endLine),
              content |-> sel.text] >>
  ELSE <<>>

\* The selection placed before the rules.
BuildContextAttachmentsSelectionFirst(context, dismissedIds) ==
  MemoriesAttachment(context) \o SelectionAttachment(context, dismissedIds)
    \o RuleAttachments(context, dismissedIds)

BuildContextAttachments(context, dismissedIds) ==
  MemoriesAttachment(context) \o RuleAttachments(context, dismissedIds)
    \o SelectionAttachment(context, dismissedIds)

\* The list left by a run whose predecessor left current.
KeepAndFill(current, context, dismissedIds) ==
  current \o BuildContextAttachments(context, dismissedIds)

\* this._contextAttachments = [], then the pushes: the list after a run of
\* _updateContextAttachments that found the list current.
RebuildContextAttachments(current, context, dismissedIds) ==
  BuildContextAttachments(context, dismissedIds)

(***************************************************************************)
(* The request builder of ChatPanelProvider._handleUserMessage             *)
(***************************************************************************)

visionModels ==
  << "gpt-4-vision", "gpt-4-turbo", "gpt-4o", "gpt-4o-mini", "claude-3-opus",
     "claude-3-sonnet", "claude-3-haiku", "claude-3-5-sonnet", "claude-3-5-haiku",
     "openai/gpt-4-vision-preview", "openai/gpt-4-turbo", "openai/gpt-4o",
     "openai/gpt-4o-mini", "anthropic/claude-3-opus", "anthropic/claude-3-sonnet",
     "anthropic/claude-3-haiku", "anthropic/claude-3-5-sonnet",
     "anthropic/claude-3-5-haiku" >>

\* ChatPanelProvider._isVisionModel
isVisionModel(model) ==
  LET modelLower == ToLowerCase(model)
  IN \E i \in 1..Len(visionModels) : Includes(modelLower, ToLowerCase(visionModels[i]))

PERSONA ==
  "You are an expert AI coding assistant. Help users with code explanations, debugging, and development tasks."

\* The system message without its guidelines section.
SystemContentNoGuidelines(context) ==
  PERSONA
    \o (IF Len(context.relevantMemories) > 0
        THEN "\n\n## Project Memories:\n" \o Join(context.relevantMemories, "\n\n") ELSE "")

\* The system message: the persona, then the guidelines and the relevant memories.
SystemContent(context) ==
  PERSONA
    \o (IF context.guidelines # "" THEN "\n\n## User Guidelines:\n" \o context.guidelines ELSE "")
    \o (IF Len(context.relevantMemories) > 0
        THEN "\n\n## Project Memories:\n" \o Join(context.relevantMemories, "\n\n") ELSE "")

FileContext(att) == "\n\n[File: " \o att.name \o "]\n" \o att.content

ImageMarker(att) == "\n\n[Image: " \o att.name \o "]"

ImageUrl(att) ==
  IF StartsWith(att.content, "data:") THEN att.content
  ELSE "data:image/png;base64," \o att.content

TextPart(t) == [type |-> "text", text |-> t, url |-> ""]

ImagePart(u) == [type |-> "image_url", text |-> "", url |-> u]

\* The fold with the image branch taken as for a vision model, whatever the model.
FoldAttachmentImageParts(acc, att, vision) ==
  IF att.type = "file" /\ att.content # ""
  THEN IF vision
       THEN IF Len(acc.parts) > 0 /\ acc.parts[Len(acc.parts)].type = "text"
            THEN [acc EXCEPT !.parts[Len(acc.parts)].text = @ \o FileContext(att)]
            ELSE [acc EXCEPT !.parts = Append(@, TextPart(FileContext(att)))]
       ELSE [acc EXCEPT !.text = @ \o FileContext(att)]
  ELSE IF att.type = "image" /\ att.content # ""
  THEN [acc EXCEPT !.parts = Append(@, ImagePart(ImageUrl(att)))]
  ELSE acc

\* One attachment folded into (messageContent, contentParts).
FoldAttachment(acc, att, vision) ==
  IF att.type = "file" /\ att.content # ""
  THEN IF vision
       THEN IF Len(acc.parts) > 0 /\ acc.parts[Len(acc.parts)].type = "text"
            THEN [acc EXCEPT !.parts[Len(acc.parts)].text = @ \o FileContext(att)]
            ELSE [acc EXCEPT !.parts = Append(@, TextPart(FileContext(att)))]
       ELSE [acc EXCEPT !.text = @ \o FileContext(att)]
  ELSE IF att.type = "image" /\ att.content # ""
  THEN IF vision
       THEN [acc EXCEPT !.parts = Append(@, ImagePart(ImageUrl(att)))]
       ELSE [acc EXCEPT !.text = @ \o ImageMarker(att)]
  ELSE acc

RECURSIVE FoldAttachments(_, _, _)
FoldAttachments(acc, atts, vision) ==
  IF atts = <<>> THEN acc
  ELSE FoldAttachments(FoldAttachment(acc, Head(atts), vision), Tail(atts), vision)

\* One message of the history in the provider's shape: its content is either a
\* string (kind "string", field text) or an array of parts (kind "parts").
ApiMessage(msg, vision) ==
  LET start == [text  |-> msg.content,
                parts |-> IF Trim(msg.content) # "" /\ vision
                          THEN <<TextPart(msg.content)>> ELSE <<>>]
      acc == FoldAttachments(start, msg.attachments, vision)
  IN IF vision /\ Len(acc.parts) > 0
     THEN [role |-> msg.role, kind |-> "parts", text |-> "", parts |-> acc.parts]
     ELSE [role |-> msg.role, kind |-> "string", text |-> acc.text, parts |-> <<>>]

\* The messages array of the request: the system message, then the whole history.
BuildApiMessages(msgs, model, context) ==
  LET vision == isVisionModel(model)
  IN << [role |-> "system", kind |-> "string", text |-> SystemContent(context),
         parts |-> <<>>] >>
       \o [i \in 1..Len(msgs) |-> ApiMessage(msgs[i], vision)]

(***************************************************************************)
(* The state of the panel, of the stores it reads and of its webview.      *)
(***************************************************************************)

VARIABLES
  threadId,             \* ChatState.threadId
  messages,             \* ChatState.messages
  attachments,          \* ChatState.attachments: the explicit attachments
  selectedModel,        \* ChatState.selectedModel
  contextAttachments,   \* ChatPanelProvider._contextAttachments, as last pushed to the webview
  dismissedContextIds,  \* ChatPanelProvider._dismissedContextIds
  memoriesFile,         \* the text of .denix/memories.md
  guidelinesFile,       \* the text of .denix/guidelines.txt
  rulesDir,             \* .denix/rules: rule name -> text of the file
  currentSelection,     \* SelectionWatcher.currentSelection: <<>> or <<selection>>
  apiKey,               \* the configured openRouterApiKey ("" when missing)
  updates,              \* the calls of _updateContextAttachments awaiting buildContext
  sends,                \* the calls of _handleUserMessage awaiting buildContext or fetch
  isGenerating,         \* the webview's state.isGenerating
  request,              \* the body of the request last built: <<>> or <<body>>
  messageIds,           \* the ids of ChatState.messages, message by message
  clock,                \* Date.now(), in milliseconds since the construction
  activeTab,            \* ChatState.activeTab
  currentFile,          \* ChatState.currentFile ("" when undefined)
  globalState,          \* globalState['denix-ai-state']: <<>> or <<the state saved last>>
  workspaceState,       \* workspaceState: key -> the thread data stored under it
  workspaceRoot,        \* whether a workspace folder is open
  files,                \* the paths under the workspace root that exist
  recomputed,           \* history variable: the inputs and the list of the recompute
                        \* completed last: <<>> or <<record>>
  last                  \* history variable: the event that led to this state

convVars == <<messages, attachments, selectedModel>>
ctxVars  == <<contextAttachments, dismissedContextIds>>
envVars  == <<memoriesFile, guidelinesFile, rulesDir, currentSelection, apiKey>>
persistVars == <<activeTab, globalState, workspaceState>>
storeVars == <<workspaceRoot, files>>
vars == <<threadId, messages, attachments, selectedModel, contextAttachments, dismissedContextIds,
          memoriesFile, guidelinesFile, rulesDir, currentSelection, apiKey,
          updates, sends, isGenerating, request, activeTab, currentFile, globalState,
          workspaceState, workspaceRoot, files, messageIds, clock, recomputed, last>>

\* this._state, as far as it is modelled.
LiveState ==
  [threadId |-> threadId, messages |-> messages, attachments |-> attachments,
   selectedModel |-> selectedModel, activeTab |-> activeTab, currentFile |-> currentFile]

\* _saveState: the live state, as the step leaves it, is stored in the one slot
\* 'denix-ai-state' of the global state.
SaveState == globalState' = <<LiveState'>>

\* The paths of the stores under the workspace root: DENIX_DIR, the memories
\* file, the guidelines file and RULES_DIR.
DenixDir == ".denix"
MemoriesPath == ".denix/memories.md"
GuidelinesPath == ".denix/guidelines.txt"
RulesDirPath == ".denix/rules"
StorePaths == {DenixDir, MemoriesPath, GuidelinesPath, RulesDirPath}

\* ensureMemoriesFile: without a workspace root nothing; otherwise the directory
\* and, when it is missing, the file are created.
ensureMemoriesFile(root, fs) == IF root THEN fs \cup {DenixDir, MemoriesPath} ELSE fs

\* GuidelinesManager.ensureFile
ensureFile(root, fs) == IF root THEN fs \cup {DenixDir, GuidelinesPath} ELSE fs

\* listRuleFiles' createDirectory, which creates the missing parents as well.
ensureRulesDir(root, fs) == IF root THEN fs \cup {DenixDir, RulesDirPath} ELSE fs

\* The paths that exist once buildContext has called loadGuidelines,
\* listRuleFiles, getRelevantMemories and loadMemories.
BuildContextFiles ==
  ensureMemoriesFile(workspaceRoot, ensureFile(workspaceRoot, ensureRulesDir(workspaceRoot, files)))

\* Bounds of the model.
MaxMessages == 4
MaxUpdates == 1
MaxSends == 2

DefaultModel == "anthropic/claude-3.5-sonnet"

\* What the memories file holds: the default text, or one section more.
MemoriesDocs == {DEFAULT_MEMORIES, DEFAULT_MEMORIES \o "## Auth\nToken login\n"}

Selections ==
  { <<>>,
    << [uri |-> "/w/src/app.ts", fileName |-> "app.ts", relativePath |-> "src/app.ts",
        text |-> "let a = 1", startLine |-> 3, endLine |-> 4] >> }

\* What the user types into the message input.
UserTexts == {" ", "test"}

\* The file the user picks in the attach dialog.
PickedFile ==
  [id |-> "file-1", type |-> "file", path |-> "/w/src/app.ts", name |-> "app.ts",
   content |-> "let a = 1"]

\* Events as the history variable records them: the operation, the text typed
\* (send intents) and the provider's outcome (a settled fetch).
Event(op) == [op |-> op, text |-> "", outcome |-> <<>>]

Intent(op, text) == [op |-> op, text |-> text, outcome |-> <<>>]

Settled(o) == [op |-> "settle", text |-> "", outcome |-> <<o>>]

\* A call of a store operation: its arguments, what it returned, the message of
\* the Error it threw ("" when it returned), and whether a write of it failed.
StoreEvent(op, args, result, thrown, failed) ==
  [op |-> op, text |-> thrown, outcome |-> <<[args |-> args, result |-> result]>>,
   failed |-> failed]

\* A thread is left behind: its id, and what the global state held for it.
Left(op) == [op |-> op, text |-> threadId, outcome |-> globalState]

(***************************************************************************)
(* _updateContextAttachments: the call captures the keywords and awaits    *)
(* buildContext; the stores are read while it waits; the selection and the *)
(* dismissed ids are read when it resumes, builds the list and pushes it.  *)
(***************************************************************************)

CanStartUpdate == BagCardinality(updates) < MaxUpdates

StartedUpdate == [phase |-> "start", keywords |-> extractKeywords(messages), context |-> <<>>]

\* updates after a call of _updateContextAttachments has started.
WithUpdateStarted == updates (+) SetToBag({StartedUpdate})

\* _setupWatchers: the calls of _updateContextAttachments the watchers start when
\* the paths are created or written: one for each path that is watched.
Refreshes(paths) ==
  LET n == Cardinality(paths \cap {MemoriesPath, GuidelinesPath})
  IN IF n = 0 THEN EmptyBag ELSE [e \in {StartedUpdate} |-> n]

\* The stores are read for a waiting call: buildContext runs, and creates what is
\* missing of the stores.
UpdateRead(u) ==
  /\ BagIn(u, updates) /\ u.phase = "start"
  /\ updates' = (updates (-) SetToBag({u})) (+)
                  SetToBag({[u EXCEPT !.phase = "read",
                                      !.context = <<buildContext(u.keywords, memoriesFile,
                                                     guidelinesFile, rulesDir, <<>>)>>]}) (+)
                  Refreshes(BuildContextFiles \ files)
  /\ files' = BuildContextFiles
  /\ last' = Event("updateRead")
  /\ UNCHANGED <<convVars, ctxVars, envVars, sends, isGenerating, request, recomputed, threadId,
                 persistVars, workspaceRoot, currentFile, clock, messageIds>>

\* The list pushed between the pushes of the build: the rules and the selection
\* are still to come.
UpdateFinishPartBuilt(u) ==
  /\ BagIn(u, updates) /\ u.phase = "read"
  /\ updates' = updates (-) SetToBag({u})
  /\ contextAttachments' = MemoriesAttachment(u.context[1])
  /\ recomputed' =
       LET inputs == [keywords |-> u.keywords, context |-> u.context[1],
                      selection |-> currentSelection, dismissed |-> dismissedContextIds]
       IN << [inputs |-> inputs, output |-> contextAttachments',
              again |-> recomputed # <<>> /\ recomputed[1].inputs = inputs,
              restored |-> (IF recomputed # <<>> THEN recomputed[1].inputs.dismissed ELSE {})
                             \ dismissedContextIds] >>
  /\ last' = Event("updateFinish")
  /\ UNCHANGED <<convVars, dismissedContextIds, envVars, sends, isGenerating, request, threadId,
                 persistVars, storeVars, currentFile, clock, messageIds>>

\* buildContext returns: the list is rebuilt from nothing and pushed.
UpdateFinish(u) ==
  /\ BagIn(u, updates) /\ u.phase = "read"
  /\ updates' = updates (-) SetToBag({u})
  /\ contextAttachments' =
       RebuildContextAttachments(contextAttachments,
                                 [u.context[1] EXCEPT !.selection = currentSelection],
                                 dismissedContextIds)
  /\ recomputed' =
       LET inputs == [keywords |-> u.keywords, context |-> u.context[1],
                      selection |-> currentSelection, dismissed |-> dismissedContextIds]
       IN << [inputs |-> inputs, output |-> contextAttachments',
              again |-> recomputed # <<>> /\ recomputed[1].inputs = inputs,
              restored |-> (IF recomputed # <<>> THEN recomputed[1].inputs.dismissed ELSE {})
                             \ dismissedContextIds] >>
  /\ last' = Event("updateFinish")
  /\ UNCHANGED <<convVars, dismissedContextIds, envVars, sends, isGenerating, request, threadId,
                 persistVars, storeVars, currentFile, clock, messageIds>>

(***************************************************************************)
(* Events of the stores and of the editor, each followed by the watcher's  *)
(* or the selection listener's call of _updateContextAttachments.          *)
(***************************************************************************)

RuleFileWritten(name) ==
  /\ CanStartUpdate
  /\ name \notin DOMAIN rulesDir
  /\ rulesDir' = [n \in DOMAIN rulesDir \cup {name} |->
                    IF n = name THEN RuleText(name) ELSE rulesDir[n]]
  /\ updates' = WithUpdateStarted
  /\ last' = Event("storeChanged")
  /\ UNCHANGED <<convVars, ctxVars, memoriesFile, guidelinesFile, currentSelection, apiKey,
                 sends, isGenerating, request, recomputed, threadId,
                 persistVars, storeVars, currentFile, clock, messageIds>>

RuleFileDeleted(name) ==
  /\ CanStartUpdate
  /\ name \in DOMAIN rulesDir
  /\ rulesDir' = [n \in DOMAIN rulesDir \ {name} |-> rulesDir[n]]
  /\ updates' = WithUpdateStarted
  /\ last' = Event("storeChanged")
  /\ UNCHANGED <<convVars, ctxVars, memoriesFile, guidelinesFile, currentSelection, apiKey,
                 sends, isGenerating, request, recomputed, threadId,
                 persistVars, storeVars, currentFile, clock, messageIds>>

MemoriesFileChanged(doc) ==
  /\ CanStartUpdate
  /\ doc # memoriesFile
  /\ memoriesFile' = doc
  /\ updates' = WithUpdateStarted
  /\ last' = Event("storeChanged")
  /\ UNCHANGED <<convVars, ctxVars, guidelinesFile, rulesDir, currentSelection, apiKey,
                 sends, isGenerating, request, recomputed, threadId,
                 persistVars, storeVars, currentFile, clock, messageIds>>

\* extension.ts: onDidChangeTextEditorSelection, then handleSelectionChanged.
SelectionChanged(sel) ==
  /\ CanStartUpdate
  /\ sel # currentSelection
  /\ currentSelection' = sel
  /\ updates' = WithUpdateStarted
  /\ last' = Event("selectionChanged")
  /\ UNCHANGED <<convVars, ctxVars, memoriesFile, guidelinesFile, rulesDir, apiKey,
                 sends, isGenerating, request, recomputed, threadId,
                 persistVars, storeVars, currentFile, clock, messageIds>>

(***************************************************************************)
(* Intents of the webview that change the context attachments.             *)
(***************************************************************************)

\* _handleMessage, case 'dismissContext'
DismissContext(id) ==
  /\ CanStartUpdate
  /\ dismissedContextIds' = dismissedContextIds \cup {id}
  /\ updates' = WithUpdateStarted
  /\ last' = Event("dismissContext")
  /\ UNCHANGED <<convVars, contextAttachments, envVars, sends, isGenerating, request, recomputed, threadId,
                 persistVars, storeVars, currentFile, clock, messageIds>>

\* The toggle as a dismissal only: 'selection' is added and never removed.
ToggleSelectionDismissOnly ==
  /\ currentSelection # <<>> => CanStartUpdate
  /\ IF currentSelection # <<>>
     THEN /\ dismissedContextIds' = dismissedContextIds \cup {"selection"}
          /\ updates' = WithUpdateStarted
     ELSE UNCHANGED <<dismissedContextIds, updates>>
  /\ last' = Event("toggleSelection")
  /\ UNCHANGED <<convVars, contextAttachments, envVars, sends, isGenerating, request, recomputed, threadId,
                 persistVars, storeVars, currentFile, clock, messageIds>>

\* _handleCommand, case 'toggleSelection'
ToggleSelection ==
  /\ currentSelection # <<>> => CanStartUpdate
  /\ IF currentSelection # <<>>
     THEN /\ dismissedContextIds' =
               IF "selection" \in dismissedContextIds
               THEN dismissedContextIds \ {"selection"}
               ELSE dismissedContextIds \cup {"selection"}
          /\ updates' = WithUpdateStarted
     ELSE UNCHANGED <<dismissedContextIds, updates>>
  /\ last' = Event("toggleSelection")
  /\ UNCHANGED <<convVars, contextAttachments, envVars, sends, isGenerating, request, recomputed, threadId,
                 persistVars, storeVars, currentFile, clock, messageIds>>

\* clearContextAttachments: _handleCommand 'clearContext' and denix-ai.clearContext
ClearContextAttachments ==
  /\ contextAttachments' = <<>>
  /\ dismissedContextIds' = {}
  /\ last' = Event("clearContext")
  /\ UNCHANGED <<convVars, envVars, updates, sends, isGenerating, request, recomputed, threadId,
                 persistVars, storeVars, currentFile, clock, messageIds>>

(***************************************************************************)
(* The provider's answers and the text _handleUserMessage makes of them.   *)
(***************************************************************************)

maxTokens == 500

\* fetch rejects (kind "reject") or resolves with a response: its status, whether
\* its body parses as JSON, the body text, the error messages (none or one) and
\* the contents of the choices of the parsed body.
Outcome(kind, status, json, text, error, choices) ==
  [kind |-> kind, status |-> status, json |-> json, text |-> text, error |-> error,
   choices |-> choices]

ProviderOutcomes ==
  { Outcome("reject", 0, FALSE, "", <<>>, <<>>),
    Outcome("response", 200, TRUE, "", <<>>, <<"Token refreshed">>),
    Outcome("response", 200, TRUE, "", <<>>, <<>>),
    Outcome("response", 200, FALSE, "<html>", <<>>, <<>>),
    Outcome("response", 500, FALSE, "upstream down", <<>>, <<>>) }

ResponseOk(o) == o.status >= 200 /\ o.status <= 299

\* The message of the Error thrown for a response that is not ok.
NotOkMessage(o) ==
  LET errorMessage == "API request failed: HTTP " \o NumberToString(o.status)
  IN IF ~o.json THEN errorMessage \o " - " \o o.text
     ELSE IF o.error = <<>> THEN errorMessage
     ELSE IF o.status = 402
          THEN "**Insufficient Credits**\n\n"
                 \o (IF o.error[1] # "" THEN o.error[1]
                     ELSE "You need more credits to make this request.")
                 \o "\n\n**Solution:**\n- Reduce max_tokens in settings (currently: "
                 \o NumberToString(maxTokens)
                 \o ")\n- Add credits at https://openrouter.ai/settings/credits\n- Or upgrade to a paid account"
          ELSE IF o.error[1] # "" THEN o.error[1] ELSE errorMessage

\* data.choices[0].message?.content || ''
AiContent(o) == IF Len(o.choices) > 0 THEN o.choices[1] ELSE ""

\* The try block without its test of the reply's content.
ThrownMessageButEmpty(o) ==
  IF o.kind = "reject" THEN "fetch failed"
  ELSE IF ~ResponseOk(o) THEN NotOkMessage(o)
  ELSE IF ~o.json THEN "Unexpected token < in JSON at position 0"
  ELSE ""

\* The message of the error the try block throws on outcome o ("": it throws none).
ThrownMessage(o) ==
  IF o.kind = "reject" THEN "fetch failed"
  ELSE IF ~ResponseOk(o) THEN NotOkMessage(o)
  ELSE IF ~o.json THEN "Unexpected token < in JSON at position 0"
  ELSE IF AiContent(o) = "" THEN "AI returned empty response"
  ELSE ""

NoApiKeyMessage == "OpenRouter API key not configured. Please set it in settings."

\* The assistant message of the catch block.
ErrorMessage(message) ==
  [role |-> "assistant",
   content |-> "**Error:** " \o (IF message # "" THEN message
                                 ELSE "An error occurred while processing your request."),
   attachments |-> <<>>]

AiMessage(content) == [role |-> "assistant", content |-> content, attachments |-> <<>>]

UserMessage(content, all) == [role |-> "user", content |-> content, attachments |-> all]

(***************************************************************************)
(* _handleUserMessage                                                      *)
(***************************************************************************)

\* The guard with || for &&.
NothingToSendEither(content, allAttachments) == Trim(content) = "" \/ allAttachments = <<>>

\* The guard of _handleUserMessage: nothing to send.
NothingToSend(content, allAttachments) == Trim(content) = "" /\ allAttachments = <<>>

\* Room in the bounded history for this send's two messages and for the reply of
\* every send already under way.
RoomToSend ==
  /\ Len(messages) + BagCardinality(sends) + 2 <= MaxMessages
  /\ BagCardinality(sends) < MaxSends

\* _handleUserMessage up to its first await: the user message is appended with the
\* merged attachments and the state is saved, then the explicit attachments are
\* emptied; without an API key the catch block appends its message at once and
\* saves again.
HandleUserMessage(content, atts) ==
  LET allAttachments == atts \o contextAttachments
      appended == Append(messages, UserMessage(content, allAttachments))
  IN IF NothingToSend(content, allAttachments)
     THEN UNCHANGED <<messages, messageIds, attachments, sends, globalState>>
     ELSE /\ attachments' = <<>>
          /\ IF apiKey = ""
             THEN /\ messages' = Append(appended, ErrorMessage(NoApiKeyMessage))
                  /\ messageIds' = messageIds \o <<MessageId(clock), MessageId(clock)>>
                  /\ globalState' = <<[LiveState EXCEPT !.messages = messages',
                                                          !.attachments = <<>>]>>
                  /\ UNCHANGED sends
             ELSE /\ messages' = appended
                  /\ messageIds' = Append(messageIds, MessageId(clock))
                  /\ globalState' = <<[LiveState EXCEPT !.messages = appended]>>
                  /\ sends' = sends (+) SetToBag({[phase |-> "context",
                                                   keywords |-> extractKeywords(appended),
                                                   model |-> selectedModel]})

\* buildContext returns to _handleUserMessage: the request is built (BuildApiMessages,
\* from the history as it is now) and fetch is called: the request is outstanding.
SendFetch(s) ==
  /\ BagIn(s, sends) /\ s.phase = "context"
  /\ sends' = (sends (-) SetToBag({s})) (+) SetToBag({[s EXCEPT !.phase = "fetch"]})
  /\ request' =
       << [model |-> s.model,
           messages |-> BuildApiMessages(messages, s.model,
                          buildContext(s.keywords, memoriesFile, guidelinesFile,
                                       rulesDir, currentSelection)),
           max_tokens |-> maxTokens] >>
  /\ updates' = updates (+) Refreshes(BuildContextFiles \ files)
  /\ files' = BuildContextFiles
  /\ last' = Event("fetch")
  /\ UNCHANGED <<convVars, ctxVars, envVars, isGenerating, recomputed, threadId,
                 persistVars, workspaceRoot, currentFile, clock, messageIds>>

\* fetch settles with outcome o: the reply, or the catch block's message, is appended.
SendSettle(s, o) ==
  /\ BagIn(s, sends) /\ s.phase = "fetch"
  /\ sends' = sends (-) SetToBag({s})
  /\ messageIds' = Append(messageIds, MessageId(clock))
  /\ messages' = Append(messages, IF ThrownMessage(o) = "" THEN AiMessage(AiContent(o))
                                  ELSE ErrorMessage(ThrownMessage(o)))
  /\ last' = Settled(o)
  /\ UNCHANGED <<attachments, selectedModel, ctxVars, envVars, updates, isGenerating, request, recomputed, threadId,
                 activeTab, workspaceState, storeVars, currentFile, clock>>
  /\ SaveState

(***************************************************************************)
(* The webview (main.js) and the quick-ask panel                           *)
(***************************************************************************)

\* The test without trim().
HasUntrimmedContent(text) == Len(text) > 0 \/ Len(attachments) > 0

\* hasContent || hasAttachments of updateSendButtonState, and the negated guard of
\* sendUserMessage.
HasSomethingToSend(text) == Len(Trim(text)) > 0 \/ Len(attachments) > 0

\* sendUserMessage: the text is trimmed, the generating flag is set, and the
\* userMessage message reaches _handleUserMessage.
sendUserMessage(text) ==
  IF ~HasSomethingToSend(text)
  THEN UNCHANGED <<messages, messageIds, attachments, sends, isGenerating, globalState>>
  ELSE /\ isGenerating' = TRUE
       /\ HandleUserMessage(Trim(text), attachments)

\* A click on the send button, which is hidden while generating and disabled
\* while there is nothing to send.
ClickSend(text) ==
  /\ RoomToSend
  /\ IF isGenerating \/ ~HasSomethingToSend(text)
     THEN UNCHANGED <<messages, messageIds, attachments, sends, isGenerating, globalState>>
     ELSE sendUserMessage(text)
  /\ last' = Intent("clickSend", text)
  /\ UNCHANGED <<selectedModel, ctxVars, envVars, updates, request, recomputed, threadId,
                 activeTab, workspaceState, storeVars, currentFile, clock>>

\* Enter in the message input: sends unless the send button is disabled.
PressEnter(text) ==
  /\ RoomToSend
  /\ IF ~HasSomethingToSend(text)
     THEN UNCHANGED <<messages, messageIds, attachments, sends, isGenerating, globalState>>
     ELSE sendUserMessage(text)
  /\ last' = Intent("pressEnter", text)
  /\ UNCHANGED <<selectedModel, ctxVars, envVars, updates, request, recomputed, threadId,
                 activeTab, workspaceState, storeVars, currentFile, clock>>

\* The quick-ask panel's send with a custom prompt and no template: the trimmed
\* prompt is posted unless it is empty, and openQuickAsk's callback hands
\* buildPrompt's result (the prompt itself) to _handleUserMessage.
QuickAskSend(text) ==
  /\ RoomToSend
  /\ IF Trim(text) = ""
     THEN UNCHANGED <<messages, messageIds, attachments, sends, globalState>>
     ELSE HandleUserMessage(Trim(text), <<>>)
  /\ last' = Intent("quickAsk", text)
  /\ UNCHANGED <<selectedModel, ctxVars, envVars, updates, isGenerating, request, recomputed, threadId,
                 activeTab, workspaceState, storeVars, currentFile, clock>>

\* stopGeneration: the flag is cleared; the extension knows no such command.
StopGeneration ==
  /\ isGenerating
  /\ isGenerating' = FALSE
  /\ last' = Event("stop")
  /\ UNCHANGED <<convVars, ctxVars, envVars, updates, sends, request, recomputed, threadId,
                 persistVars, storeVars, currentFile, clock, messageIds>>

\* _handleFileAttach with the picked file: attached unless its path already is.
HandleFileAttach ==
  /\ attachments' =
       IF \E i \in 1..Len(attachments) :
             attachments[i].path = PickedFile.path /\ attachments[i].type = "file"
       THEN attachments ELSE Append(attachments, PickedFile)
  /\ last' = Event("fileAttach")
  /\ UNCHANGED <<messages, selectedModel, ctxVars, envVars, updates, sends, isGenerating, request, recomputed, threadId,
                 activeTab, workspaceState, storeVars, currentFile, clock, messageIds>>
  /\ IF attachments' # attachments THEN SaveState ELSE UNCHANGED globalState

\* _removeAttachment
RemoveAttachment(index) ==
  /\ attachments' =
       IF index >= 0 /\ index < Len(attachments)
       THEN SubSeq(attachments, 1, index) \o SubSeq(attachments, index + 2, Len(attachments))
       ELSE attachments
  /\ last' = Event("removeAttachment")
  /\ UNCHANGED <<messages, selectedModel, ctxVars, envVars, updates, sends, isGenerating, request, recomputed, threadId,
                 activeTab, workspaceState, storeVars, currentFile, clock, messageIds>>
  /\ IF index >= 0 /\ index < Len(attachments) THEN SaveState ELSE UNCHANGED globalState

\* The image the user picks in the image dialog.
PickedImage ==
  [id |-> "image-1", type |-> "image", path |-> "/w/shot.png", name |-> "shot.png",
   content |-> "data:image/png;base64,iVBOR"]

\* _handleImageAttach with the picked image: attached unless its path already is.
HandleImageAttach ==
  /\ attachments' =
       IF \E i \in 1..Len(attachments) :
             attachments[i].type = "image" /\ attachments[i].path = PickedImage.path
       THEN attachments ELSE Append(attachments, PickedImage)
  /\ last' = Event("imageAttach")
  /\ UNCHANGED <<messages, selectedModel, ctxVars, envVars, updates, sends, isGenerating,
                 request, recomputed, threadId,
                 activeTab, workspaceState, storeVars, currentFile, clock, messageIds>>
  /\ IF attachments' # attachments THEN SaveState ELSE UNCHANGED globalState

\* The models of the model picker used here: the default one and a vision one.
Models == {DefaultModel, "openai/gpt-4o"}

\* A model switch that also starts the history afresh.
ChangeModelAfresh(model) ==
  /\ selectedModel' = model
  /\ messages' = <<>>
  /\ messageIds' = <<>>
  /\ last' = Event("changeModel")
  /\ UNCHANGED <<attachments, ctxVars, envVars, updates, sends, isGenerating,
                 request, recomputed, threadId,
                 activeTab, workspaceState, storeVars, currentFile, clock>>
  /\ SaveState

\* _changeModel
ChangeModel(model) ==
  /\ selectedModel' = model
  /\ last' = Event("changeModel")
  /\ UNCHANGED <<messages, attachments, ctxVars, envVars, updates, sends, isGenerating,
                 request, recomputed, threadId,
                 activeTab, workspaceState, storeVars, currentFile, clock, messageIds>>
  /\ SaveState

(***************************************************************************)
(* The panel after construction, and its steps.  Spec is the send path:    *)
(* the webview's and the quick-ask panel's send intents and the provider's *)
(* answers, over stores that do not change.                                *)
(***************************************************************************)

\* `thread-${Date.now()}`, the clock read in milliseconds since the construction.
ThreadId(now) == "thread-" \o NumberToString(now)

\* _loadState: the history the panel starts with is the one stored last.
Loaded == globalState = IF messages = <<>> THEN <<>> ELSE <<LiveState>>

\* A workspace folder is open and the stores exist in it.
StoresPresent == workspaceRoot = TRUE /\ files = StorePaths

\* The constructor's state: the first _updateContextAttachments is under way.
Constructed ==
  /\ threadId = ThreadId(0)
  /\ attachments = <<>>
  /\ contextAttachments = <<>>
  /\ dismissedContextIds = {}
  /\ currentSelection = <<>>
  /\ updates = SetToBag({[phase |-> "start", keywords |-> extractKeywords(messages),
                          context |-> <<>>]})
  /\ sends = EmptyBag
  /\ isGenerating = FALSE
  /\ request = <<>>
  /\ recomputed = <<>>
  /\ last = Event("init")
  /\ activeTab = "thread"
  /\ messageIds = RestoredIds(messages)
  /\ clock = 0
  /\ currentFile = ""
  /\ workspaceState = <<>>

Init ==
  /\ messages = <<>>
  /\ Constructed
  /\ selectedModel = DefaultModel
  /\ Loaded
  /\ StoresPresent
  /\ memoriesFile = DEFAULT_MEMORIES
  /\ guidelinesFile = ""
  /\ rulesDir \in {<<>>, [n \in {"style"} |-> RuleText(n)]}
  /\ apiKey \in {"", "sk-or-key"}

Next ==
  \/ \E u \in BagToSet(updates) : UpdateRead(u) \/ UpdateFinish(u)
  \/ \E text \in UserTexts : ClickSend(text) \/ PressEnter(text) \/ QuickAskSend(text)
  \/ \E s \in BagToSet(sends) : SendFetch(s) \/ \E o \in ProviderOutcomes : SendSettle(s, o)
  \/ StopGeneration
  \/ HandleFileAttach
  \/ RemoveAttachment(0)

Spec == Init /\ [][Next]_vars

(***************************************************************************)
(* SpecCtx is the reconciler: the stores and the selection change, context *)
(* attachments are dismissed, toggled and cleared, over a history that     *)
(* does not change.                                                        *)
(***************************************************************************)

\* The history the panel was restored with.
CtxHistories == {<<>>, <<UserMessage("rename style guide", <<>>)>>}

\* The rule files that are written and deleted.
CtxRules == {"style"}

\* The ids the dismissContext messages carry.
CtxDismissIds == {"memories", "selection"} \cup {"rule-" \o n : n \in CtxRules}

InitCtx ==
  /\ messages \in CtxHistories
  /\ Constructed
  /\ selectedModel = DefaultModel
  /\ Loaded
  /\ StoresPresent
  /\ memoriesFile = DEFAULT_MEMORIES
  /\ guidelinesFile = ""
  /\ rulesDir = <<>>
  /\ apiKey = "sk-or-key"

NextCtx ==
  \/ \E u \in BagToSet(updates) : UpdateRead(u) \/ UpdateFinish(u)
  \/ \E name \in CtxRules : RuleFileWritten(name) \/ RuleFileDeleted(name)
  \/ \E doc \in MemoriesDocs : MemoriesFileChanged(doc)
  \/ \E sel \in Selections : SelectionChanged(sel)
  \/ \E id \in CtxDismissIds : DismissContext(id)
  \/ ToggleSelection
  \/ ClearContextAttachments
  \/ HandleFileAttach

SpecCtx == InitCtx /\ [][NextCtx]_vars

(***************************************************************************)
(* SpecRequest is the request builder: messages with files and images are  *)
(* sent under either model, with guidelines and a rule in the stores.      *)
(***************************************************************************)

RequestTexts == {"", "hello"}

\* The provider's answers here: a reply, or a failure.
RequestOutcomes ==
  { Outcome("response", 200, TRUE, "", <<>>, <<"Token refreshed">>),
    Outcome("response", 500, FALSE, "upstream down", <<>>, <<>>) }

\* The history the panel was restored with: none, or a turn with an image.
RequestHistories ==
  { <<>>,
    << UserMessage("what is this", <<PickedImage>>), AiMessage("A screenshot.") >> }

InitRequest ==
  /\ messages \in RequestHistories
  /\ Constructed
  /\ selectedModel = DefaultModel
  /\ Loaded
  /\ StoresPresent
  /\ memoriesFile = DEFAULT_MEMORIES
  /\ guidelinesFile \in {"", "Be concise."}
  /\ rulesDir \in {<<>>, [n \in {"style"} |-> RuleText(n)]}
  /\ apiKey = "sk-or-key"

NextRequest ==
  \/ \E u \in BagToSet(updates) : UpdateRead(u) \/ UpdateFinish(u)
  \/ \E text \in RequestTexts : ClickSend(text)
  \/ \E s \in BagToSet(sends) : SendFetch(s) \/ \E o \in RequestOutcomes : SendSettle(s, o)
  \/ \E model \in Models : ChangeModel(model)
  \/ HandleImageAttach
  \/ HandleFileAttach

SpecRequest == InitRequest /\ [][NextRequest]_vars
(***************************************************************************)
(* SpecProvider is the provider's answers: sends from the panel and the    *)
(* quick-ask box, answered by every kind of response the handler tells     *)
(* apart.                                                                  *)
(***************************************************************************)

\* Responses by status, body and fields: 402 with and without an error object and
\* with a body that is not JSON, 2xx with an error object beside or without
\* choices, 2xx with an empty first choice or no choice, and a reply.
ProviderResponses ==
  { Outcome("response", 402, TRUE, "", <<"Insufficient credits">>, <<>>),
    Outcome("response", 402, TRUE, "", <<"">>, <<>>),
    Outcome("response", 402, TRUE, "", <<>>, <<>>),
    Outcome("response", 402, FALSE, "Payment Required", <<>>, <<>>),
    Outcome("response", 429, TRUE, "", <<"Rate limited">>, <<>>),
    Outcome("response", 200, TRUE, "", <<"Provider returned error">>, <<"Partial answer">>),
    Outcome("response", 200, TRUE, "", <<"Provider returned error">>, <<>>),
    Outcome("response", 200, TRUE, "", <<>>, <<"">>),
    Outcome("response", 200, TRUE, "", <<>>, <<>>),
    Outcome("response", 200, TRUE, "", <<>>, <<"Token refreshed">>) }

NextProvider ==
  \/ \E u \in BagToSet(updates) : UpdateRead(u) \/ UpdateFinish(u)
  \/ \E text \in UserTexts : ClickSend(text) \/ QuickAskSend(text)
  \/ \E s \in BagToSet(sends) : SendFetch(s) \/ \E o \in ProviderResponses : SendSettle(s, o)
  \/ HandleFileAttach

SpecProvider == Init /\ [][NextProvider]_vars

(***************************************************************************)
(* SpecMemories is the Memories store read by keyword: the document is     *)
(* rewritten on disk and getRelevantMemories is called with keyword lists. *)
(***************************************************************************)

\* A call with its arguments and what it returned.
Returned(op, args, result) == [op |-> op, text |-> "", outcome |-> <<[args |-> args, result |-> result]>>]

\* A call of MemoriesManager.getRelevantMemories(keywords).
GetRelevantMemories(keywords) ==
  /\ last' = Returned("getRelevantMemories", keywords, getRelevantMemories(memoriesFile, keywords))
  /\ UNCHANGED <<convVars, ctxVars, envVars, updates, sends, isGenerating, request, recomputed, threadId,
                 persistVars, storeVars, currentFile, clock, messageIds>>

Section(title, lines) == [title |-> title, lines |-> lines]

\* Memories documents as they are written: the lines before the first ## heading,
\* then the sections, each a title and its lines.
MemoryDocuments ==
  { [preamble |-> <<"# Denix AI Memories", "">>, sections |-> <<>>],
    [preamble |-> <<"# Denix AI Memories", "">>,
     sections |-> <<Section("Auth", <<"Token login", "">>), Section("Database", <<"Postgres 15">>)>>],
    [preamble |-> <<"# Denix AI Memories", "", "Team notes", "">>,
     sections |-> <<Section("Auth", <<"Token login">>)>>],
    [preamble |-> <<>>,
     sections |-> <<Section("Cache", <<"">>), Section("Auth", <<"### Tokens", "JWT only">>),
                    Section("Auth", <<"Token login">>)>>] }

\* The markdown text of a document.
Markdown(d) ==
  Join(d.preamble \o FlattenSeq([i \in 1..Len(d.sections) |->
                                   <<"## " \o d.sections[i].title>> \o d.sections[i].lines]),
       "\n")

MemoryKeywords == {<<>>, <<"auth">>, <<"AUTH">>, <<"postgres", "token">>, <<"notes">>, <<"tokens">>}

InitMemories ==
  /\ messages = <<>>
  /\ Constructed
  /\ selectedModel = DefaultModel
  /\ Loaded
  /\ StoresPresent
  /\ memoriesFile \in {Markdown(d) : d \in MemoryDocuments}
  /\ guidelinesFile = ""
  /\ rulesDir = <<>>
  /\ apiKey = "sk-or-key"

NextMemories ==
  \/ \E u \in BagToSet(updates) : UpdateRead(u) \/ UpdateFinish(u)
  \/ \E d \in MemoryDocuments : MemoriesFileChanged(Markdown(d))
  \/ \E keywords \in MemoryKeywords : GetRelevantMemories(keywords)

SpecMemories == InitMemories /\ [][NextMemories]_vars

(***************************************************************************)
(* SpecRules is the Rules store: rule files are created and deleted by     *)
(* name through RulesManager.  rulesDir holds the .md files of the rules   *)
(* directory, each under its file name without the extension.              *)
(***************************************************************************)

\* The Error of a writeFile that fails.
WriteError == "EACCES: permission denied"

\* RulesManager.createRuleFile(name, template): without a workspace root it throws;
\* otherwise the directory is created and the file written (written tells whether
\* the write succeeds), and the watcher on the rules directory then calls
\* _updateContextAttachments.
CreateRuleFile(name, template, written) ==
  LET file == WithoutMd(RuleFilename(name))
  IN /\ CanStartUpdate
     /\ files' = ensureRulesDir(workspaceRoot, files)
     /\ IF workspaceRoot /\ written
        THEN /\ rulesDir' = [n \in DOMAIN rulesDir \cup {file} |->
                               IF n = file THEN template ELSE rulesDir[n]]
             /\ updates' = WithUpdateStarted
             /\ last' = StoreEvent("createRuleFile", <<name, template>>,
                                   [name |-> file, path |-> RulePath(file), content |-> template],
                                   "", FALSE)
        ELSE /\ UNCHANGED <<rulesDir, updates>>
             /\ last' = IF workspaceRoot
                        THEN StoreEvent("createRuleFile", <<name, template>>, <<>>, WriteError, TRUE)
                        ELSE StoreEvent("createRuleFile", <<name, template>>, <<>>,
                                        "Workspace root not available.", FALSE)
     /\ UNCHANGED <<convVars, ctxVars, memoriesFile, guidelinesFile, currentSelection, apiKey,
                    sends, isGenerating, request, recomputed, threadId,
                    persistVars, workspaceRoot, currentFile, clock, messageIds>>

\* RulesManager.listRuleFiles(): without a workspace root nothing; otherwise the
\* rules directory is created and its .md files are listed.
ListedRules == IF workspaceRoot THEN listRuleFiles(rulesDir) ELSE <<>>

\* RulesManager.deleteRuleFile(name): the listed rule of that name is deleted, and
\* the watcher fires; without one the call throws.
DeleteRuleFile(name) ==
  LET found == SelectSeq(ListedRules, LAMBDA r : r.name = name)
  IN /\ found # <<>> => CanStartUpdate
     /\ files' = ensureRulesDir(workspaceRoot, files)
     /\ IF found # <<>>
        THEN /\ rulesDir' = [n \in DOMAIN rulesDir \ {found[1].name} |-> rulesDir[n]]
             /\ updates' = WithUpdateStarted
             /\ last' = StoreEvent("deleteRuleFile", <<name>>, <<>>, "", FALSE)
        ELSE /\ UNCHANGED <<rulesDir, updates>>
             /\ last' = StoreEvent("deleteRuleFile", <<name>>, <<>>,
                                   "Rule file \"" \o name \o "\" not found", FALSE)
     /\ UNCHANGED <<convVars, ctxVars, memoriesFile, guidelinesFile, currentSelection, apiKey,
                    sends, isGenerating, request, recomputed, threadId,
                    persistVars, workspaceRoot, currentFile, clock, messageIds>>

\* The names rules are created and deleted under, and their contents.
RuleNames == {"style", "style.md", "My Rule"}

RuleContents == {"", "Use 2-space indent."}

NextRules ==
  \/ \E u \in BagToSet(updates) : UpdateRead(u) \/ UpdateFinish(u)
  \/ \E name \in RuleNames : \E template \in RuleContents : CreateRuleFile(name, template, TRUE)
  \/ \E name \in RuleNames : DeleteRuleFile(name)

SpecRules == InitCtx /\ [][NextRules]_vars

(***************************************************************************)
(* SpecPills is the dismissal from the panel: the pills of the published   *)
(* context attachments are dismissed by their remove button.               *)
(***************************************************************************)

\* The data-context-id createAttachmentPill gives the pill at index (from 0).
PillContextId(att, index) ==
  IF att.name # "" THEN att.name ELSE "context-" \o NumberToString(index)

\* The remove button of the context pill at index: the webview posts
\* dismissContext with the pill's data-context-id, and _handleMessage adds that
\* id and calls _updateContextAttachments.
DismissPill(index) ==
  /\ CanStartUpdate
  /\ index < Len(contextAttachments)
  /\ dismissedContextIds' =
       dismissedContextIds \cup {PillContextId(contextAttachments[index + 1], index)}
  /\ updates' = WithUpdateStarted
  /\ last' = Intent("dismissPill", contextAttachments[index + 1].id)
  /\ UNCHANGED <<convVars, contextAttachments, envVars, sends, isGenerating, request, recomputed, threadId,
                 persistVars, storeVars, currentFile, clock, messageIds>>

\* The indices of the pills the panel can show.
PillIndices == 0..2

InitPills ==
  /\ messages = <<>>
  /\ Constructed
  /\ selectedModel = DefaultModel
  /\ Loaded
  /\ StoresPresent
  /\ memoriesFile \in MemoriesDocs
  /\ guidelinesFile = ""
  /\ rulesDir \in {<<>>, [n \in {"style"} |-> RuleText(n)]}
  /\ apiKey = "sk-or-key"

NextPills ==
  \/ \E u \in BagToSet(updates) : UpdateRead(u) \/ UpdateFinish(u)
  \/ \E index \in PillIndices : DismissPill(index)
  \/ \E sel \in Selections : SelectionChanged(sel)
  \/ ToggleSelection
  \/ ClearContextAttachments

SpecPills == InitPills /\ [][NextPills]_vars

(***************************************************************************)
(* SpecThread is the start of a new thread, from the panel and from the    *)
(* editor command, over a restored history, with context attachments       *)
(* dismissed and the model changed.                                        *)
(***************************************************************************)

\* The latest reading of the clock, in milliseconds since the construction.
MaxClock == 2

\* The clock reads now: no earlier than when the current thread id was made.
ClockReads(now) == \E earlier \in 0..now : threadId = ThreadId(earlier)

\* _handleCommand, case 'newThread': the panel's plus and add-thread buttons.
NewThread(now) ==
  /\ ClockReads(now)
  /\ threadId' = ThreadId(now)
  /\ messages' = <<>>
  /\ messageIds' = <<>>
  /\ attachments' = <<>>
  /\ last' = Left("newThread")
  /\ UNCHANGED <<selectedModel, ctxVars, envVars, updates, sends, isGenerating, request, recomputed,
                 activeTab, workspaceState, storeVars, currentFile, clock>>
  /\ SaveState

\* createNewThread: the editor command denix-ai.newThread.
CreateNewThread(now) ==
  /\ ClockReads(now)
  /\ threadId' = ThreadId(now)
  /\ messages' = <<>>
  /\ messageIds' = <<>>
  /\ attachments' = <<>>
  /\ contextAttachments' = <<>>
  /\ dismissedContextIds' = {}
  /\ last' = Left("createNewThread")
  /\ UNCHANGED <<selectedModel, envVars, updates, sends, isGenerating, request, recomputed,
                 activeTab, workspaceState, storeVars, currentFile, clock>>
  /\ SaveState

InitThread ==
  /\ messages \in RequestHistories
  /\ Constructed
  /\ selectedModel = DefaultModel
  /\ Loaded
  /\ StoresPresent
  /\ memoriesFile = DEFAULT_MEMORIES
  /\ guidelinesFile = ""
  /\ rulesDir = [n \in {"style"} |-> RuleText(n)]
  /\ apiKey = "sk-or-key"

NextThread ==
  \/ \E u \in BagToSet(updates) : UpdateRead(u) \/ UpdateFinish(u)
  \/ \E now \in 0..MaxClock : NewThread(now) \/ CreateNewThread(now)
  \/ \E index \in PillIndices : DismissPill(index)
  \/ \E sel \in Selections : SelectionChanged(sel)
  \/ ToggleSelection
  \/ \E model \in Models : ChangeModel(model)
  \/ HandleFileAttach

SpecThread == InitThread /\ [][NextThread]_vars

(***************************************************************************)
(* SpecPersist is the persistence of the conversation: the handlers that   *)
(* change this._state, _saveState's one slot in the global state, and the  *)
(* threads kept in the workspace state.                                    *)
(***************************************************************************)

\* _handleCommand, case 'changeTab'
ChangeTab(tab) ==
  /\ activeTab' = IF tab = "" THEN "thread" ELSE tab
  /\ last' = Intent("changeTab", tab)
  /\ UNCHANGED <<threadId, convVars, ctxVars, envVars, updates, sends, isGenerating, request,
                 recomputed, globalState, workspaceState, storeVars, currentFile, clock, messageIds>>

\* The key of a thread in the workspace state.
ThreadKey(id) == "thread-" \o id

\* The thread files the user imports.
ExportedThreads ==
  { [threadId |-> "thread-1699", messages |-> <<UserMessage("old question", <<>>),
                                                AiMessage("Old answer.")>>,
     attachments |-> <<>>, selectedModel |-> "openai/gpt-4o", activeTab |-> "thread",
     currentFile |-> ""] }

\* this._state = threadData, then _saveState.
BecomeThread(threadData) ==
  /\ threadId' = threadData.threadId
  /\ messages' = threadData.messages
  /\ messageIds' = RestoredIds(threadData.messages)
  /\ attachments' = threadData.attachments
  /\ selectedModel' = threadData.selectedModel
  /\ activeTab' = threadData.activeTab
  /\ currentFile' = threadData.currentFile
  /\ globalState' = <<threadData>>

\* _importThread with the file picked: the thread gets a new id, is stored in the
\* workspace state under the key of that id, and becomes the live state.
ImportThread(now, file) ==
  LET threadData == [file EXCEPT !.threadId = ThreadId(now)]
  IN /\ ClockReads(now)
     /\ workspaceState' = [k \in DOMAIN workspaceState \cup {ThreadKey(ThreadId(now))} |->
                             IF k = ThreadKey(ThreadId(now)) THEN threadData
                             ELSE workspaceState[k]]
     /\ BecomeThread(threadData)
     /\ last' = Event("importThread")
     /\ UNCHANGED <<ctxVars, envVars, updates, sends, isGenerating, request, recomputed,
                    storeVars, clock>>

\* _handleCommand, case 'switchThread', and _loadThread: the thread stored in the
\* workspace state under the key of the id becomes the live state; without one
\* nothing happens.
SwitchThread(id) ==
  /\ IF ThreadKey(id) \in DOMAIN workspaceState
     THEN BecomeThread(workspaceState[ThreadKey(id)])
     ELSE UNCHANGED <<threadId, convVars, messageIds, activeTab, currentFile, globalState>>
  /\ last' = Intent("switchThread", id)
  /\ UNCHANGED <<ctxVars, envVars, updates, sends, isGenerating, request, recomputed,
                 workspaceState, storeVars, clock>>

InitPersist ==
  /\ messages = <<>>
  /\ Constructed
  /\ selectedModel = DefaultModel
  /\ Loaded
  /\ StoresPresent
  /\ memoriesFile = DEFAULT_MEMORIES
  /\ guidelinesFile = ""
  /\ rulesDir = <<>>
  /\ apiKey \in {"", "sk-or-key"}

NextPersist ==
  \/ \E text \in UserTexts : ClickSend(text)
  \/ \E s \in BagToSet(sends) : SendFetch(s) \/ \E o \in RequestOutcomes : SendSettle(s, o)
  \/ HandleFileAttach
  \/ RemoveAttachment(0)
  \/ \E model \in Models : ChangeModel(model)
  \/ \E tab \in {"", "tasks"} : ChangeTab(tab)
  \/ \E now \in 0..MaxClock : NewThread(now) \/ \E file \in ExportedThreads : ImportThread(now, file)
  \/ \E now \in 0..MaxClock : SwitchThread(ThreadId(now))

SpecPersist == InitPersist /\ [][NextPersist]_vars

(***************************************************************************)
(* SpecStore is the three stores with and without a workspace root, with   *)
(* their files present or missing, and with writes that fail: the          *)
(* operations of MemoriesManager, GuidelinesManager and RulesManager, the  *)
(* settings panel's openRule, the panel's import of rule files, and the    *)
(* calls of buildContext.                                                  *)
(***************************************************************************)

\* The frame of an operation of the Memories or Guidelines store.
StoreFrame ==
  UNCHANGED <<convVars, ctxVars, rulesDir, currentSelection, apiKey, sends, isGenerating,
              request, recomputed, threadId, persistVars, workspaceRoot, currentFile, clock, messageIds>>

\* MemoriesManager.loadMemories()
LoadMemories ==
  /\ files' = ensureMemoriesFile(workspaceRoot, files)
  /\ updates' = updates (+) Refreshes(files' \ files)
  /\ last' = StoreEvent("loadMemories", <<>>,
                        IF workspaceRoot THEN memoriesFile ELSE DEFAULT_MEMORIES, "", FALSE)
  /\ UNCHANGED <<memoriesFile, guidelinesFile>>
  /\ StoreFrame

\* MemoriesManager.saveMemories(markdown); written tells whether writeFile succeeds.
SaveMemories(markdown, written) ==
  /\ CanStartUpdate
  /\ files' = ensureMemoriesFile(workspaceRoot, files)
  /\ IF workspaceRoot /\ written
     THEN /\ memoriesFile' = markdown
          /\ updates' = updates (+) Refreshes({MemoriesPath})
          /\ last' = StoreEvent("saveMemories", <<markdown>>, <<>>, "", FALSE)
     ELSE /\ UNCHANGED memoriesFile
          /\ updates' = updates (+) Refreshes(files' \ files)
          /\ last' = IF workspaceRoot
                     THEN StoreEvent("saveMemories", <<markdown>>, <<>>, WriteError, TRUE)
                     ELSE StoreEvent("saveMemories", <<markdown>>, <<>>,
                                     "No workspace folder available to save memories.", FALSE)
  /\ UNCHANGED guidelinesFile
  /\ StoreFrame

\* GuidelinesManager.loadGuidelines()
LoadGuidelines ==
  /\ files' = ensureFile(workspaceRoot, files)
  /\ updates' = updates (+) Refreshes(files' \ files)
  /\ last' = StoreEvent("loadGuidelines", <<>>, IF workspaceRoot THEN guidelinesFile ELSE "",
                        "", FALSE)
  /\ UNCHANGED <<memoriesFile, guidelinesFile>>
  /\ StoreFrame

\* GuidelinesManager.saveGuidelines(text); written tells whether writeFile succeeds.
SaveGuidelines(text, written) ==
  /\ CanStartUpdate
  /\ files' = ensureFile(workspaceRoot, files)
  /\ IF workspaceRoot /\ written
     THEN /\ guidelinesFile' = text
          /\ updates' = updates (+) Refreshes({GuidelinesPath})
          /\ last' = StoreEvent("saveGuidelines", <<text>>, <<>>, "", FALSE)
     ELSE /\ UNCHANGED guidelinesFile
          /\ updates' = updates (+) Refreshes(files' \ files)
          /\ last' = IF workspaceRoot
                     THEN StoreEvent("saveGuidelines", <<text>>, <<>>, WriteError, TRUE)
                     ELSE StoreEvent("saveGuidelines", <<text>>, <<>>,
                                     "Unable to resolve guidelines file path.", FALSE)
  /\ UNCHANGED memoriesFile
  /\ StoreFrame

\* RulesManager.listRuleFiles()
ListRuleFiles ==
  /\ files' = ensureRulesDir(workspaceRoot, files)
  /\ last' = StoreEvent("listRuleFiles", <<>>, ListedRules, "", FALSE)
  /\ UNCHANGED <<memoriesFile, guidelinesFile, updates>>
  /\ StoreFrame

\* SettingsPanel.openRule(name): the listed rule of that name is opened in an
\* editor; without one nothing happens.
OpenRule(name) ==
  /\ files' = ensureRulesDir(workspaceRoot, files)
  /\ last' = StoreEvent("openRule", <<name>>,
                        SelectSeq(ListedRules, LAMBDA r : r.name = name), "", FALSE)
  /\ UNCHANGED <<memoriesFile, guidelinesFile, updates>>
  /\ StoreFrame

\* _handleImportRules with one path, the file  baseName.md  holding content: the
\* rule is created under the base name and, when that throws, under the base name
\* with the time appended; what the second call throws is logged.  The rules are
\* listed and sent to the webview then.  written and again tell whether the
\* writes of the two calls succeed.
ImportRules(baseName, content, written, again) ==
  LET retried == baseName \o "-" \o NumberToString(MaxClock)
      created == IF ~workspaceRoot \/ (~written /\ ~again) THEN <<>>
                 ELSE IF written THEN <<WithoutMd(RuleFilename(baseName))>>
                 ELSE <<WithoutMd(RuleFilename(retried))>>
      dir == [n \in DOMAIN rulesDir \cup SeqRange(created) |->
                IF n \in SeqRange(created) THEN content ELSE rulesDir[n]]
  IN /\ CanStartUpdate
     /\ files' = ensureRulesDir(workspaceRoot, files)
     /\ rulesDir' = dir
     /\ updates' = IF created # <<>> THEN WithUpdateStarted ELSE updates
     /\ last' = StoreEvent("importRules", <<baseName, content>>,
                           IF workspaceRoot THEN listRuleFiles(dir) ELSE <<>>, "",
                           workspaceRoot /\ ~written /\ ~again)
     /\ UNCHANGED <<convVars, ctxVars, memoriesFile, guidelinesFile, currentSelection, apiKey,
                    sends, isGenerating, request, recomputed, threadId,
                    persistVars, workspaceRoot, currentFile, clock, messageIds>>

\* The names of the rules created, imported, deleted and opened: a rule file of
\* the start, and a name without one.
StoreRuleNames == {"style", "My Rule"}

\* The paths that exist at the start: a file only within its directory.
StoreFiles == {fs \in SUBSET StorePaths : fs # {} => DenixDir \in fs}

InitStore ==
  /\ messages = <<>>
  /\ Constructed
  /\ selectedModel = DefaultModel
  /\ Loaded
  /\ apiKey = "sk-or-key"
  /\ workspaceRoot \in BOOLEAN
  /\ files \in IF workspaceRoot THEN StoreFiles ELSE {{}}
  /\ memoriesFile = DEFAULT_MEMORIES
  /\ guidelinesFile = ""
  /\ rulesDir \in IF RulesDirPath \in files THEN {<<>>, [n \in {"style"} |-> RuleText(n)]}
                  ELSE {<<>>}

NextStore ==
  \/ \E u \in BagToSet(updates) : UpdateRead(u) \/ UpdateFinish(u)
  \/ LoadMemories
  \/ LoadGuidelines
  \/ ListRuleFiles
  \/ \E written \in BOOLEAN :
        \/ SaveMemories(DEFAULT_MEMORIES \o "## Auth\nToken login\n", written)
        \/ SaveGuidelines("Be concise.", written)
        \/ \E name \in StoreRuleNames :
              \/ CreateRuleFile(name, "# " \o name \o "\n\n", written)
              \/ \E again \in BOOLEAN : ImportRules(name, "Use 2-space indent.", written, again)
  \/ \E name \in StoreRuleNames : DeleteRuleFile(name) \/ OpenRule(name)

SpecStore == InitStore /\ [][NextStore]_vars

(***************************************************************************)
(* SpecKeywords is the keyword extraction: the panel is restored with a    *)
(* history, and every call of _updateContextAttachments captures the       *)
(* keywords of that history.                                               *)
(***************************************************************************)

\* The contents of the messages of the history: upper case, runs of white space,
\* tokens of four and of five characters, a token that repeats, and no token.
KeywordContents == {"Fix LOGIN  token", "login\tflow fails\n", ""}

\* The histories the panel is restored with.
KeywordHistories ==
  UNION { [1..n -> {UserMessage(c, <<>>) : c \in KeywordContents}] : n \in 0..MaxMessages }

InitKeywords ==
  /\ messages \in KeywordHistories
  /\ Constructed
  /\ selectedModel = DefaultModel
  /\ Loaded
  /\ StoresPresent
  /\ memoriesFile = DEFAULT_MEMORIES
  /\ guidelinesFile = ""
  /\ rulesDir = <<>>
  /\ apiKey = "sk-or-key"

NextKeywords ==
  \/ \E u \in BagToSet(updates) : UpdateRead(u) \/ UpdateFinish(u)
  \/ \E sel \in Selections : SelectionChanged(sel)

SpecKeywords == InitKeywords /\ [][NextKeywords]_vars

(***************************************************************************)
(* SpecAttach is the explicit attachments: the user attaches, removes and  *)
(* sends, the editor changes its active file and its selection, and the    *)
(* context attachments are recomputed; the provider does not answer.       *)
(***************************************************************************)

\* _updateActiveFile with the file of the editor that became active ("" without
\* an editor); visible tells whether the panel is shown.  A file that becomes
\* the current one and is not attached is attached while the panel is visible,
\* by _handleFileAttach, which saves.
ActiveEditorChanged(file, visible) ==
  LET attached == \E i \in 1..Len(attachments) :
                     attachments[i].path = file /\ attachments[i].type = "file"
  IN /\ currentFile' = file
     /\ IF file # "" /\ file # currentFile /\ ~attached /\ visible
        THEN /\ attachments' = Append(attachments, PickedFile)
             /\ last' = Event("activeEditorChanged")
             /\ UNCHANGED <<threadId, messages, selectedModel, ctxVars, envVars, updates, sends,
                            isGenerating, request, recomputed, activeTab, workspaceState,
                            storeVars, clock, messageIds>>
             /\ SaveState
        ELSE /\ last' = Event("activeEditorChanged")
             /\ UNCHANGED <<threadId, convVars, ctxVars, envVars, updates, sends, isGenerating,
                            request, recomputed, persistVars, storeVars, clock, messageIds>>

NextAttach ==
  \/ \E u \in BagToSet(updates) : UpdateRead(u) \/ UpdateFinish(u)
  \/ \E file \in {"", PickedFile.path} : \E visible \in BOOLEAN : ActiveEditorChanged(file, visible)
  \/ \E sel \in Selections : SelectionChanged(sel)
  \/ HandleImageAttach
  \/ RemoveAttachment(0)
  \/ ClickSend("test")

SpecAttach == Init /\ [][NextAttach]_vars

(***************************************************************************)
(* SpecShape is the list a recompute builds: memories, several rules and a *)
(* selection come and go, and context attachments are dismissed.           *)
(***************************************************************************)

NextShape ==
  \/ \E u \in BagToSet(updates) : UpdateRead(u) \/ UpdateFinish(u)
  \/ \E name \in {"lint", "style"} : RuleFileWritten(name) \/ RuleFileDeleted(name)
  \/ \E sel \in Selections : SelectionChanged(sel)
  \/ \E id \in {"memories", "rule-lint", "selection"} : DismissContext(id)

SpecShape == InitPills /\ [][NextShape]_vars

(***************************************************************************)
(* SpecHistory is the history and its ids: messages are sent and answered  *)
(* while the clock ticks, and the user edits messages in the panel.        *)
(***************************************************************************)

\* A millisecond passes.
Tick ==
  /\ clock < MaxClock
  /\ clock' = clock + 1
  /\ last' = Event("tick")
  /\ UNCHANGED <<threadId, convVars, ctxVars, envVars, updates, sends, isGenerating, request,
                 recomputed, persistVars, currentFile, storeVars, messageIds>>

\* The panel's editMessage and its Save button: the first message of the id, a
\* user message, is made editable; Save posts 'editMessage' with the trimmed
\* text when it is not empty and differs from the content.  _handleMessage has
\* no case for 'editMessage': it warns of an unknown message type.
EditMessage(messageId, typed) ==
  LET found == {i \in 1..Len(messages) : messageIds[i] = messageId}
      first == CHOOSE i \in found : \A j \in found : i <= j
      newContent == Trim(typed)
  IN /\ found # {}
     /\ messages[first].role = "user"
     /\ last' = IF newContent # "" /\ newContent # messages[first].content
                THEN [op |-> "editMessage", text |-> newContent, outcome |-> <<messageId>>]
                ELSE Event("editDiscarded")
     /\ UNCHANGED <<threadId, convVars, ctxVars, envVars, updates, sends, isGenerating, request,
                    recomputed, persistVars, currentFile, storeVars, clock, messageIds>>

\* What the user types into a message being edited.
EditTexts == {"test", " retest "}

NextHistory ==
  \/ Tick
  \/ ClickSend("test")
  \/ \E s \in BagToSet(sends) : SendFetch(s) \/ \E o \in RequestOutcomes : SendSettle(s, o)
  \/ \E i \in 1..Len(messageIds) : \E typed \in EditTexts : EditMessage(messageIds[i], typed)

SpecHistory == Init /\ [][NextHistory]_vars

(***************************************************************************)
(* SpecAtomic is the reconciler among the other handlers: the stores and   *)
(* the selection change, context attachments are dismissed and cleared,    *)
(* messages are sent and the editor starts a new thread, while recomputes   *)
(* are under way.                                                          *)
(***************************************************************************)

NextAtomic ==
  \/ \E u \in BagToSet(updates) : UpdateRead(u) \/ UpdateFinish(u)
  \/ RuleFileWritten("lint")
  \/ \E sel \in Selections : SelectionChanged(sel)
  \/ DismissContext("rule-lint")
  \/ ClearContextAttachments
  \/ CreateNewThread(clock)
  \/ ClickSend("test")
  \/ \E s \in BagToSet(sends) : SendFetch(s)

SpecAtomic == InitCtx /\ [][NextAtomic]_vars

(***************************************************************************)
(* SpecBurst is a burst of watcher events: a rule file is written while a  *)
(* recompute is waiting for its reads, so that the runs of                 *)
(* _updateContextAttachments overlap and finish in any order.              *)
(***************************************************************************)

\* The watcher's refresh for a rule file written while an earlier run has read
\* the stores and has not finished: nothing holds the second run back.
RuleFileWrittenInBurst(name) ==
  /\ \E u \in BagToSet(updates) : u.phase = "read"
  /\ BagCardinality(updates) <= MaxUpdates
  /\ name \notin DOMAIN rulesDir
  /\ rulesDir' = [n \in DOMAIN rulesDir \cup {name} |->
                    IF n = name THEN RuleText(name) ELSE rulesDir[n]]
  /\ updates' = WithUpdateStarted
  /\ last' = Event("storeChanged")
  /\ UNCHANGED <<convVars, ctxVars, memoriesFile, guidelinesFile, currentSelection, apiKey,
                 sends, isGenerating, request, recomputed, threadId,
                 persistVars, storeVars, currentFile, clock, messageIds>>

NextBurst ==
  \/ \E u \in BagToSet(updates) : UpdateRead(u) \/ UpdateFinish(u)
  \/ \E name \in CtxRules : RuleFileWritten(name) \/ RuleFileDeleted(name)
  \/ \E name \in CtxRules : RuleFileWrittenInBurst(name)
  \/ \E sel \in Selections : SelectionChanged(sel)
  \/ \E id \in CtxDismissIds : DismissContext(id)

SpecBurst == InitCtx /\ [][NextBurst]_vars

(***************************************************************************)
(* SpecPicker is the model picker of the editor command: a model is picked *)
(* from the list selectModel offers, and messages with images are sent     *)
(* under it.                                                               *)
(***************************************************************************)

\* The items selectModel offers.
ModelItems ==
  << [label |-> "GPT-4o (Vision)", value |-> "openai/gpt-4o"],
     [label |-> "GPT-4 Turbo (Vision)", value |-> "openai/gpt-4-turbo"],
     [label |-> "GPT-4o Mini (Vision)", value |-> "openai/gpt-4o-mini"],
     [label |-> "Claude 3.5 Sonnet (Vision)", value |-> "anthropic/claude-3.5-sonnet"],
     [label |-> "Claude 3 Opus (Vision)", value |-> "anthropic/claude-3-opus"],
     [label |-> "Claude 3 Sonnet (Vision)", value |-> "anthropic/claude-3-sonnet"],
     [label |-> "Claude 3 Haiku (Vision)", value |-> "anthropic/claude-3-haiku"],
     [label |-> "GPT-4", value |-> "openai/gpt-4"],
     [label |-> "GPT-3.5 Turbo", value |-> "openai/gpt-3.5-turbo"],
     [label |-> "Mistral 7B", value |-> "mistralai/mistral-7b-instruct"] >>

\* selectModel: the quick pick returns the item picked, or nothing when it is
\* dismissed (picked = 0).
SelectModel(picked) ==
  /\ last' = Intent("selectModel", IF picked = 0 THEN "" ELSE ModelItems[picked].label)
  /\ IF picked # 0
     THEN /\ selectedModel' = ModelItems[picked].value
          /\ UNCHANGED <<messages, attachments, ctxVars, envVars, updates, sends, isGenerating,
                         request, recomputed, threadId, activeTab, workspaceState, storeVars,
                         currentFile, clock, messageIds>>
          /\ SaveState
     ELSE UNCHANGED <<convVars, ctxVars, envVars, updates, sends, isGenerating, request,
                      recomputed, threadId, persistVars, storeVars, currentFile, clock,
                      messageIds>>

NextPicker ==
  \/ \E u \in BagToSet(updates) : UpdateRead(u) \/ UpdateFinish(u)
  \/ \E picked \in 0..Len(ModelItems) : SelectModel(picked)
  \/ HandleImageAttach
  \/ ClickSend("test")
  \/ \E s \in BagToSet(sends) : SendFetch(s)

SpecPicker == InitRequest /\ [][NextPicker]_vars

(***************************************************************************)
(* SpecClick is the panel's selection button: setupEventListeners gives it *)
(* two click listeners, and each posts the command 'toggleSelection'.      *)
(***************************************************************************)

\* The dismissal set after one 'toggleSelection' command with a selection.
ToggledOnce(dismissedIds) ==
  IF "selection" \in dismissedIds THEN dismissedIds \ {"selection"}
  ELSE dismissedIds \cup {"selection"}

\* One click on the selection button, which updateUI enables while there is a
\* selection: the two listeners post 'toggleSelection' one after the other,
\* and _handleCommand toggles and starts a recompute for each.
ClickSelectionButton ==
  /\ currentSelection # <<>>
  /\ CanStartUpdate
  /\ dismissedContextIds' = ToggledOnce(ToggledOnce(dismissedContextIds))
  /\ updates' = updates (+) SetToBag({StartedUpdate}) (+) SetToBag({StartedUpdate})
  /\ last' = Event("clickSelection")
  /\ UNCHANGED <<convVars, contextAttachments, envVars, sends, isGenerating, request, recomputed,
                 threadId, persistVars, storeVars, currentFile, clock, messageIds>>

NextClick ==
  \/ \E u \in BagToSet(updates) : UpdateRead(u) \/ UpdateFinish(u)
  \/ \E sel \in Selections : SelectionChanged(sel)
  \/ \E index \in PillIndices : DismissPill(index)
  \/ ClickSelectionButton

SpecClick == InitPills /\ [][NextClick]_vars

(***************************************************************************)
(* Properties of the reconciler, checked under SpecCtx.                    *)
(***************************************************************************)

\* No call of _updateContextAttachments is under way.
Reconciled == updates = EmptyBag

DerivableContext ==
  BuildContextAttachments(
    buildContext(extractKeywords(messages), memoriesFile, guidelinesFile, rulesDir,
                 currentSelection), {})

\* The list the panel shows and _handleUserMessage snapshots into a message.
PublishedAttachments == attachments \o contextAttachments

\* C2: union correctness.  With no recompute under way, the published list is the
\* explicit attachments united with the derivable context attachments whose id is
\* not dismissed, and no id occurs twice in it.
UnionCorrectness ==
  Reconciled =>
    /\ SeqRange(PublishedAttachments) =
         SeqRange(attachments)
           \cup {a \in SeqRange(DerivableContext) : a.id \notin dismissedContextIds}
    /\ \A i, j \in 1..Len(PublishedAttachments) :
         PublishedAttachments[i].id = PublishedAttachments[j].id => i = j

\* C3: recompute idempotence and determinism.  A recompute that completes with
\* the store contents, selection, keywords of the history and dismissal set of the
\* recompute completed before it leaves the same list, element for element.
RecomputeIdempotent ==
  [][ (/\ recomputed # <<>>
       /\ recomputed' # <<>>
       /\ recomputed'[1].inputs = recomputed[1].inputs)
      => recomputed'[1].output = recomputed[1].output ]_vars

\* Two recomputes in a row have completed on the same inputs, with a list to show.
RecomputedAgain ==
  /\ recomputed # <<>>
  /\ recomputed[1].again
  /\ Len(recomputed[1].output) > 1
  /\ last.op = "updateFinish"
(***************************************************************************)
(* Properties of the send path, checked under Spec.                        *)
(***************************************************************************)

\* C4: no stuck awaitingResponse.  When every send has had its response or its
\* error (none awaits the provider any more), the generating flag is clear.
NoStuckAwaitingResponse == sends = EmptyBag => ~isGenerating

\* The calls of _handleUserMessage whose fetch is outstanding.
OutstandingRequests ==
  BagCardinality([s \in {t \in BagToSet(sends) : t.phase = "fetch"} |-> CopiesIn(s, sends)])

\* C5: single in-flight request.  At most one provider request is outstanding.
SingleInFlightRequest == OutstandingRequests <= 1

SendOps == {"clickSend", "pressEnter", "quickAsk"}

\* The provider call failed: no response, a status outside 2xx, a body that is
\* not JSON, or no content in the first choice.
IsFailure(o) ==
  \/ o.kind = "reject"
  \/ o.status < 200 \/ o.status > 299
  \/ ~o.json
  \/ o.choices = <<>> \/ o.choices[1] = ""

\* The diagnostic of a failed call that its error text must keep: the raw body
\* of a response outside 2xx that is not JSON.
FailureDetail(o) ==
  IF o.kind = "response" /\ (o.status < 200 \/ o.status > 299) /\ ~o.json THEN o.text ELSE ""

ErrorPrefix == "**Error:** "

\* An assistant message that carries an error text, detail included.
IsErrorMessage(m, detail) ==
  /\ m.role = "assistant"
  /\ StartsWith(m.content, ErrorPrefix) /\ Len(m.content) > Len(ErrorPrefix)
  /\ Includes(m.content, detail)

CountRole(msgs, role) == Cardinality({i \in 1..Len(msgs) : msgs[i].role = role})

\* A send was accepted without an API key.
KeylessSendAccepted == last'.op \in SendOps /\ apiKey = "" /\ Len(messages') > Len(messages)

NoOpSend ==
  [][ (/\ last'.op \in SendOps
       /\ Trim(last'.text) = ""
       /\ attachments \o contextAttachments = <<>>)
      => UNCHANGED <<messages, attachments, sends, request, isGenerating,
                 persistVars, storeVars, currentFile, clock, messageIds>> ]_vars

\* An empty send was tried on an idle panel with nothing attached.
EmptySendTried ==
  /\ last.op \in SendOps
  /\ last.text # "" /\ Trim(last.text) = ""
  /\ attachments \o contextAttachments = <<>>
  /\ messages = <<>> /\ ~isGenerating

\* The scenario of C8: the memories store has no section, nothing is attached,
\* the panel is idle, and the user clicks send on "test".
TestClicked ==
  /\ last'.op = "clickSend" /\ last'.text = "test"
  /\ splitSections(memoriesFile) = <<>>
  /\ attachments = <<>>
  /\ ~isGenerating

\* C8 as stated: the click on "test" is a no-op, no request is started and the
\* panel stays idle.
TestSendIsNoOp ==
  [][ TestClicked => (messages' = messages /\ sends' = sends /\ ~isGenerating') ]_vars

\* C8 amended: the click on "test" is accepted.  The user message "test" is
\* appended with the published context attachments and the generating flag is
\* set; with an API key the handler goes on to the request, without one the
\* missing-key error message is appended.
TestSendIsAccepted ==
  [][ TestClicked =>
        /\ isGenerating'
        /\ attachments' = <<>>
        /\ Len(messages') > Len(messages)
        /\ SubSeq(messages', 1, Len(messages) + 1)
             = Append(messages, UserMessage("test", contextAttachments))
        /\ IF apiKey = ""
           THEN /\ sends' = sends
                /\ Len(messages') = Len(messages) + 2
                /\ IsErrorMessage(messages'[Len(messages')], "API key not configured")
           ELSE /\ Len(messages') = Len(messages) + 1
                /\ BagCardinality(sends') = BagCardinality(sends) + 1 ]_vars

\* "test" was clicked and its send is under way.
TestSendStarted ==
  /\ last.op = "clickSend" /\ last.text = "test"
  /\ Len(messages) = 1 /\ messages[1].content = "test" /\ messages[1].attachments = <<>>
  /\ isGenerating
  /\ BagCardinality(sends) = 1
(***************************************************************************)
(* Properties of the request builder, checked under SpecRequest, where the *)
(* history only grows: message i of the history is message i + 1 of a      *)
(* request built from it.                                                  *)
(***************************************************************************)

\* The number of places of s where p occurs.
Occurrences(s, p) ==
  Cardinality({i \in 1..Len(s) : i + Len(p) - 1 <= Len(s) /\ SubSeq(s, i, i + Len(p) - 1) = p})

\* The image attachments of a message of the history, by position.
ImagesOf(msg) == {k \in 1..Len(msg.attachments) : msg.attachments[k].type = "image"}

\* C9: vision degradation.  In a request built for a model that is not
\* vision-capable every message content is a string, no part is an image, and
\* every image attachment of a message adds exactly one [Image: <name>] marker to
\* that message's text.
VisionDegradation ==
  (request # <<>> /\ ~isVisionModel(request[1].model)) =>
    \A i \in 1..Len(request[1].messages) :
      LET m == request[1].messages[i]
      IN /\ m.kind = "string" /\ m.parts = <<>>
         /\ i > 1 =>
              /\ Occurrences(m.text, "[Image: ") = Cardinality(ImagesOf(messages[i - 1]))
              /\ \A k \in ImagesOf(messages[i - 1]) :
                   Occurrences(m.text, "\n\n[Image: " \o messages[i - 1].attachments[k].name \o "]")
                     = Cardinality({j \in ImagesOf(messages[i - 1]) :
                                      messages[i - 1].attachments[j].name
                                        = messages[i - 1].attachments[k].name})

\* A request for a model that is not vision-capable was built from a history with
\* images, one of them sent with a file.
ImagesDegraded ==
  /\ request # <<>>
  /\ ~isVisionModel(request[1].model)
  /\ Len(request[1].messages) = 4
  /\ \A i \in {1, 3} : ImagesOf(messages[i]) # {}
  /\ Len(messages[3].attachments) > 1

\* The scenario of C10: the guidelines are "Be concise.", the rule style holds
\* "Use 2-space indent.", and the request was built for the user's "hello".
HelloRequested ==
  /\ guidelinesFile = "Be concise."
  /\ DOMAIN rulesDir = {"style"} /\ rulesDir["style"] = "Use 2-space indent."
  /\ request # <<>>
  /\ Len(request[1].messages) >= 2
  /\ messages[Len(request[1].messages) - 1] .role = "user"
  /\ messages[Len(request[1].messages) - 1] .content = "hello"

\* The system message of the request.
SystemText == request[1].messages[1].text

\* C10 as stated: the system message holds "Be concise." and, after it,
\* "Use 2-space indent.".
SystemMessageHasGuidelinesAndRule ==
  HelloRequested =>
    \E i, j \in 1..Len(SystemText) :
      /\ i < j
      /\ StartsWith(SubSeq(SystemText, i, Len(SystemText)), "Be concise.")
      /\ StartsWith(SubSeq(SystemText, j, Len(SystemText)), "Use 2-space indent.")

\* The texts of a message of a request: its string, or its text parts.
MessageTexts(m) ==
  IF m.kind = "string" THEN {m.text}
  ELSE {m.parts[k].text : k \in {n \in 1..Len(m.parts) : m.parts[n].type = "text"}}

\* The user's "hello" was sent with the rule's context attachment.
HelloCarriesRule ==
  \E k \in 1..Len(messages[Len(request[1].messages) - 1].attachments) :
    messages[Len(request[1].messages) - 1].attachments[k].id = "rule-style"

\* C10 amended: the system message holds "Be concise." under the User Guidelines
\* header and does not hold the rule text; "Use 2-space indent." comes after the
\* system message, in the [File: @style] block of the user message "hello", when
\* the rule's context attachment was published as the message was sent.
GuidelinesInSystemRuleInUserMessage ==
  HelloRequested =>
    /\ Includes(SystemText, "\n\n## User Guidelines:\nBe concise.")
    /\ ~Includes(SystemText, "Use 2-space indent.")
    /\ request[1].messages[1].role = "system"
    /\ HelloCarriesRule =>
         \E t \in MessageTexts(request[1].messages[Len(request[1].messages)]) :
           Includes(t, "\n\n[File: @style]\nUse 2-space indent.")

\* The request for "hello" was built with the rule attached to the message.
HelloRequestedWithRule == HelloRequested /\ HelloCarriesRule

(***************************************************************************)
(* Properties of the provider's answers, checked under SpecProvider.       *)
(***************************************************************************)

\* The remediation that only the quota message gives.
QuotaRemediation == "Add credits at https://openrouter.ai/settings/credits"

\* The message the last step appended.
LastMessage == messages[Len(messages)]

\* C11: quota error is distinguishable.  Whenever the provider answers a send with
\* status 402, whatever the body, the appended assistant message carries the
\* quota remediation; the message for another status outside 2xx does not.
QuotaErrorDistinguishable ==
  (last.op = "settle" /\ ~ResponseOk(last.outcome[1])) =>
     /\ LastMessage.role = "assistant"
     /\ Includes(LastMessage.content, QuotaRemediation) <=> last.outcome[1].status = 402

\* C12: auth error blocks the send before the network.  A send without an API key
\* issues no provider request and is blocked before it takes effect: the panel
\* ends idle and the failure is reported to the user.
KeylessSendBlocked ==
  [][ KeylessSendAccepted =>
        /\ sends' = sends /\ request' = request
        /\ IsErrorMessage(messages'[Len(messages')], "API key not configured")
        /\ ~isGenerating'
    ]_vars

\* The provider's answer is 2xx and has no content: no choice, or an empty one.
IsEmptyResponse(o) == o.kind = "response" /\ ResponseOk(o) /\ o.json /\ AiContent(o) = ""

\* C13: empty response is an error.  On a 2xx answer with no choices or with empty
\* content no assistant message with empty content is appended; an assistant
\* message with the error text is, and the panel is idle once no send is left.
EmptyResponseIsError ==
  (last.op = "settle" /\ IsEmptyResponse(last.outcome[1])) =>
     /\ \A i \in 1..Len(messages) : messages[i].role = "assistant" => messages[i].content # ""
     /\ IsErrorMessage(LastMessage, "")
     /\ sends = EmptyBag => ~isGenerating

\* C14: failure signals are equivalent.  An answer that carries an error field is
\* a failure, whatever its status and whether or not it also carries choices: the
\* appended assistant message reports the error's message, and no reply content.
ErrorFieldIsFailure ==
  (last.op = "settle" /\ last.outcome[1].kind = "response" /\ last.outcome[1].error # <<>>) =>
     /\ IsErrorMessage(LastMessage, last.outcome[1].error[1])
     /\ AiContent(last.outcome[1]) # "" => ~Includes(LastMessage.content, AiContent(last.outcome[1]))

(***************************************************************************)
(* Properties of the Memories store, checked under SpecMemories.           *)
(***************************************************************************)

\* The document that was written as the Memories file.
WrittenDocument == CHOOSE d \in MemoryDocuments : Markdown(d) = memoriesFile

\* Title plus content contains a keyword, case-insensitively; any entry does when
\* there is no keyword.
MatchesKeywords(e, keywords) ==
  \/ keywords = <<>>
  \/ \E i \in 1..Len(keywords) :
       Includes(ToLowerCase(e.section \o "\n" \o e.content), ToLowerCase(keywords[i]))

\* The non-empty entries among es that match, in order.
Relevant(es, keywords) ==
  SelectSeq(es, LAMBDA e : e.content # "" /\ MatchesKeywords(e, keywords))

\* The ## sections of a document, each with its lines as content.
HeadedSections(d) ==
  [i \in 1..Len(d.sections) |->
     [section |-> d.sections[i].title, content |-> Trim(Join(d.sections[i].lines, "\n"))]]

\* The entries of a document: the text before the first ## heading under the
\* title General, then the ## sections; the content of an entry is its lines
\* that do not start with #.
Unheaded(lines) == SelectSeq(lines, LAMBDA l : ~StartsWith(l, "#"))

DocumentEntries(d) ==
  << [section |-> "General", content |-> Trim(Join(Unheaded(d.preamble), "\n"))] >>
  \o [i \in 1..Len(d.sections) |->
        [section |-> d.sections[i].title,
         content |-> Trim(Join(Unheaded(d.sections[i].lines), "\n"))]]

\* getRelevantMemories has returned.
MemoriesReturned == last.op = "getRelevantMemories"

\* C15 as stated: memory filtering.  getRelevantMemories returns, in document
\* order, exactly the non-empty ## sections whose title plus content contains a
\* keyword case-insensitively, and all non-empty ## sections for no keyword.
ReturnsMatchingHeadedSections ==
  MemoriesReturned =>
    last.outcome[1].result = Relevant(HeadedSections(WrittenDocument), last.outcome[1].args)

\* C15: memory filtering.  getRelevantMemories returns, in document order, exactly
\* the non-empty entries whose title plus content contains a keyword
\* case-insensitively, and all non-empty entries for no keyword, the entries being
\* the text before the first ## heading (titled General) and the ## sections,
\* without their lines that start with #.
ReturnsMatchingEntries ==
  MemoriesReturned =>
    last.outcome[1].result = Relevant(DocumentEntries(WrittenDocument), last.outcome[1].args)

\* The call returned the Auth section alone for a keyword in another case, from a
\* document that also has text before its first heading.
AuthReturnedAlone ==
  /\ MemoriesReturned
  /\ last.outcome[1].args = <<"AUTH">>
  /\ last.outcome[1].result = <<[section |-> "Auth", content |-> "Token login"]>>
  /\ Includes(memoriesFile, "Team notes")

(***************************************************************************)
(* Properties of the Rules store, checked under SpecRules.                 *)
(***************************************************************************)

\* A rule name as given, without its extension.
ExtensionStripped(name) == IF EndsWith(name, ".md") THEN SubSeq(name, 1, Len(name) - 3) ELSE name

\* The entries listRuleFiles yields now under a name.
ListedAs(name) == {r \in SeqRange(listRuleFiles(rulesDir)) : r.name = name}

\* C16: rule round trip.  After createRuleFile(name, content), listRuleFiles
\* yields an entry with the given name (extension stripped) and that content;
\* after deleteRuleFile(name) it yields no entry of that name.
RuleRoundTrip ==
  /\ last.op = "createRuleFile" =>
       \E r \in ListedAs(ExtensionStripped(last.outcome[1].args[1])) :
          r.content = last.outcome[1].args[2]
  /\ last.op = "deleteRuleFile" => ListedAs(ExtensionStripped(last.outcome[1].args[1])) = {}

(***************************************************************************)
(* Properties of dismissing and restoring, checked under SpecCtx.          *)
(***************************************************************************)

\* The ids of the published context attachments.
PublishedIds == {contextAttachments[i].id : i \in 1..Len(contextAttachments)}

\* The source of the context attachment with id x exists for the recompute that
\* has just completed: a non-empty selection, or the rule file among those the
\* recompute read.
SourceExists(x) ==
  IF x = "selection" THEN currentSelection # <<>>
  ELSE \E i \in 1..Len(recomputed[1].inputs.context.rules) :
         x = "rule-" \o recomputed[1].inputs.context.rules[i].name

\* The ids of rules and of the selection.
RestorableIds == {"selection"} \cup {"rule-" \o n : n \in CtxRules}

DismissTakesEffect ==
  [][ /\ last'.op = "dismissPill" =>
           /\ last'.text \in dismissedContextIds'
           /\ BagCardinality(updates') = BagCardinality(updates) + 1
      /\ last'.op = "updateFinish" =>
           \A i \in 1..Len(contextAttachments') : contextAttachments'[i].id \notin dismissedContextIds'
    ]_vars

(***************************************************************************)
(* Properties of the conversation's frame, checked under Spec and          *)
(* SpecThread.                                                             *)
(***************************************************************************)

\* A send was accepted: its user message was appended.
SendAccepted == last'.op \in SendOps /\ Len(messages') > Len(messages)

\* C19: send snapshot and frame.  An accepted send stores in the new user message
\* the merged attachment list current at send time, explicit attachments followed
\* by context attachments, and empties the explicit attachments; the
\* context-attachment list, the dismissal set and the selected model are unchanged.
SendSnapshotsAttachments ==
  [][ SendAccepted =>
        /\ messages'[Len(messages) + 1].role = "user"
        /\ messages'[Len(messages) + 1].attachments = attachments \o contextAttachments
        /\ attachments' = <<>>
        /\ UNCHANGED <<contextAttachments, dismissedContextIds, selectedModel>>
    ]_vars

\* C20: newThread frame.  Every newThread entry point, the panel's command and
\* the editor command, empties the messages and the explicit attachments and
\* assigns a thread id different from the previous one, and leaves the dismissal
\* set and the selected model unchanged.
NewThreadFrame ==
  [][ last'.op \in {"newThread", "createNewThread"} =>
        /\ messages' = <<>> /\ attachments' = <<>>
        /\ threadId' # threadId
        /\ UNCHANGED <<dismissedContextIds, selectedModel>>
    ]_vars

(***************************************************************************)
(* Properties of clearContext, of the recompute triggers and of the        *)
(* selection toggle.                                                       *)
(***************************************************************************)

\* A call of _updateContextAttachments starts in this step.
RecomputeStarts == BagCardinality(updates') = BagCardinality(updates) + 1

\* C21: clearAll.  After clearContext is handled the dismissal set is empty, the
\* explicit attachments are empty and a recompute has been triggered.
ClearAllResetsAndRecomputes ==
  [][ last'.op = "clearContext" =>
        /\ dismissedContextIds' = {}
        /\ attachments' = <<>>
        /\ RecomputeStarts
    ]_vars

\* One of the four events happens in this step: a store file is created, changed
\* or deleted, the selection changes, a message is appended to the history, or a
\* dismissal is added or toggled.
RecomputeEvent ==
  \/ memoriesFile' # memoriesFile \/ guidelinesFile' # guidelinesFile \/ rulesDir' # rulesDir
  \/ currentSelection' # currentSelection
  \/ Len(messages') > Len(messages)
  \/ last'.op \in {"dismissContext", "dismissPill", "toggleSelection"}
       /\ dismissedContextIds' # dismissedContextIds

\* C22: recompute triggers.  Each of the four events is followed by a recompute of
\* the context attachments: its handler calls _updateContextAttachments, which
\* pushes the state when it completes.
EventsTriggerRecompute == [][RecomputeEvent => RecomputeStarts]_vars

\* The dismissal set with 'selection' added if it was absent and removed if it
\* was present.
SelectionToggled ==
  IF "selection" \in dismissedContextIds
  THEN dismissedContextIds \ {"selection"} ELSE dismissedContextIds \cup {"selection"}

\* C23 as stated: selection toggle.  A toggleSelection intent adds 'selection' to
\* the dismissal set if it is absent and removes it if it is present, leaving the
\* other ids, in every state, with or without a current selection.
ToggleAlwaysToggles ==
  [][last'.op = "toggleSelection" => dismissedContextIds' = SelectionToggled]_vars

\* C23: selection toggle.  With a current selection a toggleSelection intent adds
\* 'selection' to the dismissal set if it is absent and removes it if it is
\* present, leaving the other ids; without a current selection it leaves the
\* dismissal set as it is.
ToggleTogglesWithSelection ==
  [][ last'.op = "toggleSelection" =>
        dismissedContextIds' =
          IF currentSelection # <<>> THEN SelectionToggled ELSE dismissedContextIds
    ]_vars

\* The toggle has just taken 'selection' out of a dismissal set that keeps
\* another id.
SelectionToggledBackOn ==
  /\ last.op = "toggleSelection"
  /\ currentSelection # <<>>
  /\ "selection" \notin dismissedContextIds
  /\ dismissedContextIds # {}

(***************************************************************************)
(* Properties of the model switch, checked under SpecThread.               *)
(***************************************************************************)

HandlersFinished == sends = EmptyBag

\* C25: whenever a handler that changes the conversation state (the thread id, the
\* messages, the explicit attachments, the selected model, the active tab) has
\* finished, the state stored durably equals the live one.
PersistedOnEveryMutation ==
  [][ (LiveState' # LiveState /\ HandlersFinished') => globalState' = <<LiveState'>> ]_vars

\* C26: once the state of a thread has been persisted, a switchThread with the id
\* of that thread after a newThread makes the messages and the id of that thread
\* the live ones again.
ReloadByThreadId ==
  [][ ( /\ last.op = "newThread"
        /\ last.outcome # <<>> /\ last.outcome[1].threadId = last.text
        /\ last'.op = "switchThread" /\ last'.text = last.text )
      => /\ threadId' = last.text
         /\ messages' = last.outcome[1].messages ]_vars

(***************************************************************************)
(* Properties of the stores, checked under SpecStore.                      *)
(***************************************************************************)

\* The operations of the three stores.
StoreOperations ==
  {"loadMemories", "saveMemories", "loadGuidelines", "saveGuidelines",
   "listRuleFiles", "createRuleFile", "deleteRuleFile"}

\* The call e returned the empty value of its kind: the empty text of a load, the
\* empty list, or nothing.
ReturnedEmpty(e) ==
  /\ e.text = ""
  /\ IF e.op \in {"loadMemories", "loadGuidelines"} THEN e.outcome[1].result = ""
     ELSE e.outcome[1].result = <<>>

\* C27: without a workspace root every operation of the Memories, Guidelines and
\* Rules stores (load, save, list, create, delete) changes nothing, returns an
\* empty value and does not throw.
NoRootDegrades ==
  [][ (~workspaceRoot /\ last'.op \in StoreOperations) =>
        /\ ReturnedEmpty(last')
        /\ UNCHANGED <<memoriesFile, guidelinesFile, rulesDir, files>> ]_vars

\* C28: a call of buildContext leaves the file system as it is: no memories file,
\* guidelines file or rules directory is created.
AssemblyCreatesNothing ==
  [][ last'.op \in {"updateRead", "fetch"} => files' = files ]_vars

\* The operations that write a store.
WritingOperations == {"saveMemories", "saveGuidelines", "createRuleFile", "importRules"}

\* C29: when a write of a mutating store operation (save memories, save
\* guidelines, create or import a rule) fails, the operation ends with an error
\* for its caller.
WriteFailuresPropagate ==
  [][ (last'.op \in WritingOperations /\ last'.failed) => last'.text # "" ]_vars

\* C30: deleting or opening a rule under a name the store does not list reports
\* an error to the caller and leaves the rules and their contents as they are.
NotFoundSurfaced ==
  [][ ( /\ last'.op \in {"deleteRuleFile", "openRule"}
        /\ \A r \in SeqRange(ListedRules) : r.name # last'.outcome[1].args[1] )
      => /\ last'.text # ""
         /\ rulesDir' = rulesDir ]_vars

(***************************************************************************)
(* Properties of the keyword extraction, checked under SpecKeywords.       *)
(***************************************************************************)

\* The tokens of s: the places <<i, j>> of its maximal runs without white space,
\* each from a start i to the first end of a run from there on.
TokensOf(s) ==
  LET starts == {i \in 1..Len(s) : ~IsSpace(CharAt(s, i)) /\ (i = 1 \/ IsSpace(CharAt(s, i - 1)))}
      ends == {j \in 1..Len(s) : ~IsSpace(CharAt(s, j)) /\ (j = Len(s) \/ IsSpace(CharAt(s, j + 1)))}
  IN { <<i, CHOOSE j \in ends : j >= i /\ \A k \in ends : k >= i => j <= k>> : i \in starts }

\* The occurrences of tokens longer than 4 characters in the last 3 messages: the
\* message, the place in its content, and the token in lower case.
LongTokens ==
  LET from == IF Len(messages) > 3 THEN Len(messages) - 2 ELSE 1
  IN UNION { { [message |-> m, at |-> p[1],
                word |-> ToLowerCase(SubSeq(messages[m].content, p[1], p[2]))] :
               p \in {q \in TokensOf(messages[m].content) : q[2] - q[1] + 1 > 4} } :
             m \in from..Len(messages) }

\* Occurrence a comes before occurrence b.
Precedes(a, b) == a.message < b.message \/ (a.message = b.message /\ a.at < b.at)

\* The first occurrence of the word w.
FirstOf(w) ==
  CHOOSE a \in LongTokens : a.word = w /\ \A b \in LongTokens : b.word = w => ~Precedes(b, a)

\* C32: the keywords a recompute captures are exactly the lower-cased tokens longer
\* than 4 characters of the contents of the last 3 messages (of all when there are
\* fewer), each once, in the order of their first occurrences.
KeywordsExact ==
  \A u \in BagToSet(updates) :
    /\ SeqRange(u.keywords) = {a.word : a \in LongTokens}
    /\ \A i, j \in 1..Len(u.keywords) :
         i < j => /\ u.keywords[i] # u.keywords[j]
                  /\ Precedes(FirstOf(u.keywords[i]), FirstOf(u.keywords[j]))

\* A call has captured the keywords of a history of four messages: the first
\* message is left out, a token that repeats is there once.
KeywordsOfLastThree ==
  /\ Len(messages) = 4
  /\ messages[1].content = "login\tflow fails\n"
  /\ \E u \in BagToSet(updates) : u.keywords = <<"login", "token">>

(***************************************************************************)
(* Properties of the explicit attachments, checked under SpecAttach.       *)
(***************************************************************************)

\* The user's actions that change the explicit attachments: attaching a file or
\* an image, removing an attachment, sending, clearing, and a new thread.
UserAttachmentActions ==
  {"fileAttach", "imageAttach", "removeAttachment", "clickSend", "pressEnter", "quickAsk",
   "clearAttachments", "newThread", "createNewThread"}

\* C31: the explicit attachments change only in a step of a user's attach, remove,
\* send, clear or new thread; no event of the editor (active editor, selection,
\* store file) and no recompute adds to them or removes from them.
AttachmentsByUserOnly ==
  [][ attachments' # attachments => last'.op \in UserAttachmentActions ]_vars

(***************************************************************************)
(* Properties of the list a recompute builds, checked under SpecShape.     *)
(***************************************************************************)

\* The place of an attachment in the fixed order, by its id: memories, rules,
\* selection.
ShapeRank(a) ==
  IF a.id = "memories" THEN 1 ELSE IF StartsWith(a.id, "rule-") THEN 2
  ELSE IF a.id = "selection" THEN 3 ELSE 0

\* The places of list where the id is id.
PlacesOf(list, id) == {i \in 1..Len(list) : list[i].id = id}

\* C33: the list of every recompute is in the order memories, rules, selection, the
\* rules in the order of the listing; it holds at most one attachment 'memories',
\* there iff a memory is relevant and holding the memory strings joined by a blank
\* line; one attachment 'rule-<name>' for each rule that is not dismissed and no
\* other rule attachment; and at most one attachment 'selection', named
\* '<fileName>:<startLine>-<endLine>'.
ContextListShape ==
  recomputed # <<>> =>
    LET list == recomputed[1].output
        context == recomputed[1].inputs.context
        dismissed == recomputed[1].inputs.dismissed
        selection == recomputed[1].inputs.selection
        active == SelectSeq(context.rules, LAMBDA r : ("rule-" \o r.name) \notin dismissed)
        ruleItems == SelectSeq(list, LAMBDA a : ShapeRank(a) = 2)
    IN /\ \A i, j \in 1..Len(list) : i < j => ShapeRank(list[i]) <= ShapeRank(list[j])
       /\ \A i \in 1..Len(list) : ShapeRank(list[i]) > 0
       /\ Cardinality(PlacesOf(list, "memories")) <= 1
       /\ PlacesOf(list, "memories") # {} <=> Len(context.relevantMemories) > 0
       /\ \A i \in PlacesOf(list, "memories") :
            list[i].content = Join(context.relevantMemories, "\n\n")
       /\ Len(ruleItems) = Len(active)
       /\ \A i \in 1..Len(ruleItems) : ruleItems[i].id = "rule-" \o active[i].name
       /\ Cardinality(PlacesOf(list, "selection")) <= 1
       /\ \A i \in PlacesOf(list, "selection") :
            /\ selection # <<>>
            /\ list[i].name = selection[1].fileName \o ":"
                                \o NumberToString(selection[1].startLine) \o "-"
                                \o NumberToString(selection[1].endLine)

\* A recompute has built a list of memories, two rules and the selection, with a
\* dismissed rule left out of an earlier one.
FullContextList ==
  /\ recomputed # <<>>
  /\ Len(recomputed[1].output) = 4
  /\ recomputed[1].output[2].id = "rule-lint"
  /\ recomputed[1].output[4].id = "selection"

\* The place of the message the last 'editMessage' named.
EditedPlace ==
  CHOOSE i \in 1..Len(messages') : /\ messageIds'[i] = last'.outcome[1]
                                   /\ \A j \in 1..(i - 1) : messageIds'[j] # last'.outcome[1]

\* Within a thread the history grows by appending, and the id, the role and the
\* attachment snapshot of a message stay as they were appended.
HistoryAppendOnly ==
  /\ Len(messages') >= Len(messages)
  /\ \A i \in 1..Len(messages) :
       /\ messageIds'[i] = messageIds[i]
       /\ messages'[i].role = messages[i].role
       /\ messages'[i].attachments = messages[i].attachments

\* C34: message immutability.  Once appended, a message keeps its id, role and
\* attachment snapshot and the history only grows; the content of a message
\* changes exactly when the user edits a user message: no other step changes
\* it, and an edit the panel posts makes the edited text the content of that
\* message in the Conversation State, which later pushes and requests carry.
ContentChangesExactlyOnEdit ==
  [][ /\ HistoryAppendOnly
      /\ \A i \in 1..Len(messages) :
           messages'[i].content # messages[i].content => last'.op = "editMessage"
      /\ last'.op = "editMessage" => messages'[EditedPlace].content = last'.text ]_vars

\* C37: message ids are unique.  No two messages of the history have the same
\* id, a user message and the reply or error message appended for it included,
\* also when the clock has not advanced between them.
MessageIdsUnique ==
  \A i, j \in 1..Len(messageIds) : i # j => messageIds[i] # messageIds[j]

\* The list one run of _updateContextAttachments builds from what the last
\* finished recompute read.
CompleteOutput(r) ==
  BuildContextAttachments([r.inputs.context EXCEPT !.selection = r.inputs.selection],
                          r.inputs.dismissed)

SingleRecompute ==
  BuildContextAttachments(
    [buildContext(extractKeywords(messages), memoriesFile, guidelinesFile, rulesDir, <<>>)
       EXCEPT !.selection = currentSelection],
    dismissedContextIds)

\* C36: overlapping recomputes converge.  Once every recompute that was started
\* has finished, the published context-attachment list is the list a single
\* recompute would build from the final store contents, selection and
\* dismissal set: a run that read older store contents does not overwrite the
\* result of a run that read newer ones.
OverlappingRecomputesConverge ==
  updates = EmptyBag /\ recomputed # <<>> => contextAttachments = SingleRecompute

\* The selected model is offered with the label '(Vision)'.
OfferedAsVision ==
  \E i \in 1..Len(ModelItems) :
    ModelItems[i].value = selectedModel /\ Includes(ModelItems[i].label, "(Vision)")

\* C38: the vision classification agrees with the model picker.  The model
\* selected, be it the default model or one picked from selectModel's list, is
\* classified as vision-capable by _isVisionModel when it is the default model
\* or is offered with the label '(Vision)', and as not vision-capable when it
\* is offered without that label.
VisionAgreesWithPicker ==
  isVisionModel(selectedModel) <=> (selectedModel = DefaultModel \/ OfferedAsVision)

\* C39: one click, one toggle.  A click on the selection button while there is
\* a selection changes the membership of 'selection' in the dismissal set
\* exactly once: it is dismissed after the click iff it was not before.
OneClickOneToggle ==
  [][ last'.op = "clickSelection" =>
        ("selection" \in dismissedContextIds' <=> "selection" \notin dismissedContextIds) ]_vars

====
